---- MODULE Spec2Model ----
(***************************************************************************)
(* rag-cli: the agent execution engine.                                    *)
(*                                                                         *)
(* Text is modelled as a sequence of one-character strings, so that the    *)
(* trimming, case folding, splitting and substring tests of the Go code    *)
(* are computed and not assumed.                                           *)
(***************************************************************************)
EXTENDS Integers, Sequences, FiniteSets, TLC

VARIABLES
    ev,             \* a component on its own: the inputs of one call and its result, or the AutoIndexer and its tree
    fe,             \* which front-end drives the request
    AutoApprove,    \* SessionConfig.AutoApprove
    MaxAttempts,    \* SessionConfig.MaxAttempts as configured (may be <= 0)
    pc,             \* position of the front-end in its loop / its UI state
    originalRequest,
    commandQueue,
    executionLog,   \* strings.Builder contents
    attempt,        \* attempt / currentAttempt
    lastErr,        \* lastErr != nil
    pendingCommand, \* InlineModel / Model: command awaiting approval
    inflight,       \* InlineModel / Model: the tea.Cmd running, or the message it produced
    ret,            \* what the last executeCommandsIteratively call returned
    hist            \* observation record of the current run (prompts, answers, Execute calls, ...)

vars == <<ev, fe, AutoApprove, MaxAttempts, pc, originalRequest, commandQueue,
          executionLog, attempt, lastErr, pendingCommand, inflight, ret, hist>>

----------------------------------------------------------------------------
(* Go strings package, on sequences of characters *)

LowerLetters == <<"a", "b", "c", "d", "e", "f", "g", "h", "i", "j", "k", "l", "m", "n", "o", "p", "q", "r", "s", "t", "u", "v", "w", "x", "y", "z">>
UpperLetters == <<"A", "B", "C", "D", "E", "F", "G", "H", "I", "J", "K", "L", "M", "N", "O", "P", "Q", "R", "S", "T", "U", "V", "W", "X", "Y", "Z">>
Digits == {"0", "1", "2", "3", "4", "5", "6", "7", "8", "9"}

\* unicode.IsSpace restricted to the characters of the model's alphabet
IsSpace(c) == c \in {" ", "\t", "\n", "\r"}

SetMin(S) == CHOOSE x \in S : \A y \in S : x <= y
SetMax(S) == CHOOSE x \in S : \A y \in S : x >= y

ToUpperChar(c) ==
    IF \E i \in 1..26 : LowerLetters[i] = c
    THEN UpperLetters[CHOOSE i \in 1..26 : LowerLetters[i] = c]
    ELSE c

ToLowerChar(c) ==
    IF \E i \in 1..26 : UpperLetters[i] = c
    THEN LowerLetters[CHOOSE i \in 1..26 : UpperLetters[i] = c]
    ELSE c

ToUpper(s) == [i \in 1..Len(s) |-> ToUpperChar(s[i])]
ToLower(s) == [i \in 1..Len(s) |-> ToLowerChar(s[i])]

TrimSpace(s) ==
    LET keep == {i \in 1..Len(s) : ~IsSpace(s[i])}
    IN  IF keep = {} THEN <<>> ELSE SubSeq(s, SetMin(keep), SetMax(keep))

HasPrefix(s, p) == Len(s) >= Len(p) /\ SubSeq(s, 1, Len(p)) = p

Contains(s, sub) == \E i \in 0..(Len(s) - Len(sub)) : SubSeq(s, i + 1, i + Len(sub)) = sub

\* strings.Split(s, "\n"): always at least one piece
RECURSIVE SplitLines(_)
SplitLines(s) ==
    LET nl == {i \in 1..Len(s) : s[i] = "\n"}
    IN  IF nl = {} THEN <<s>>
        ELSE <<SubSeq(s, 1, SetMin(nl) - 1)>> \o SplitLines(SubSeq(s, SetMin(nl) + 1, Len(s)))

RECURSIVE MapTrim(_)
MapTrim(lines) == IF lines = <<>> THEN <<>> ELSE <<TrimSpace(Head(lines))>> \o MapTrim(Tail(lines))

\* the value of a decimal digit
DigitVal(c) == CHOOSE n \in 0..9 : <<"0", "1", "2", "3", "4", "5", "6", "7", "8", "9">>[n + 1] = c

\* a <= b for two numerals of the same length
NumeralLE(a, b) ==
    LET diff == {i \in 1..Len(a) : a[i] # b[i]}
    IN  diff = {} \/ DigitVal(a[SetMin(diff)]) < DigitVal(b[SetMin(diff)])

S_MaxInt64 == <<"9", "2", "2", "3", "3", "7", "2", "0", "3", "6", "8", "5", "4", "7", "7", "5", "8", "0", "7">>
S_MinInt64Abs == <<"9", "2", "2", "3", "3", "7", "2", "0", "3", "6", "8", "5", "4", "7", "7", "5", "8", "0", "8">>

\* strconv.Atoi(s) returns no error: an optional sign, at least one digit,
\* nothing else, and a value that fits a 64-bit int
AtoiOk(s) ==
    LET neg == Len(s) > 0 /\ s[1] = "-"
        body == IF Len(s) > 0 /\ s[1] \in {"+", "-"} THEN Tail(s) ELSE s
        nz == {i \in 1..Len(body) : body[i] # "0"}
        sig == IF nz = {} THEN <<>> ELSE SubSeq(body, SetMin(nz), Len(body))
    IN  /\ Len(body) > 0
        /\ \A i \in 1..Len(body) : body[i] \in Digits
        /\ \/ Len(sig) < Len(S_MaxInt64)
           \/ Len(sig) = Len(S_MaxInt64) /\ NumeralLE(sig, IF neg THEN S_MinInt64Abs ELSE S_MaxInt64)

----------------------------------------------------------------------------
(* string constants of the source *)

S_YES == <<"Y", "E", "S">>
S_Y == <<"Y">>
S_ACHIEVED == <<"A", "C", "H", "I", "E", "V", "E", "D">>
S_COMPLETED == <<"C", "O", "M", "P", "L", "E", "T", "E", "D">>
S_SUCCESS == <<"S", "U", "C", "C", "E", "S", "S">>
S_time == <<"t", "i", "m", "e">>
S_DollarDate == <<"$", " ", "d", "a", "t", "e">>
S_ErrorColon == <<"E", "r", "r", "o", "r", ":">>
S_NONE == <<"N", "O", "N", "E">>
S_PROCEED == <<"P", "R", "O", "C", "E", "E", "D">>
S_STOP == <<"S", "T", "O", "P">>
S_MODIFY == <<"M", "O", "D", "I", "F", "Y">>
S_drwx == <<"d", "r", "w", "x", "r", "-", "x", "r", "-", "x">>
S_total == <<"t", "o", "t", "a", "l", " ">>
S_cmdNotFound == <<"c", "o", "m", "m", "a", "n", "d", " ", "n", "o", "t", " ", "f", "o", "u", "n", "d">>
S_Dollar == <<"$">>
S_Hash == <<"#">>
S_Gt == <<">">>

----------------------------------------------------------------------------
(* CommandValidator *)

\* a validator that lets a fragment of several lines through
IsValid_MultiLine(cmd) ==
    /\ cmd # <<>>
    /\ ~(HasPrefix(cmd, S_Dollar) \/ HasPrefix(cmd, S_Hash) \/ HasPrefix(cmd, S_Gt))
    /\ TrimSpace(cmd) # <<>>
    /\ ~(Contains(cmd, S_drwx) \/ Contains(cmd, S_total))
    /\ ~AtoiOk(TrimSpace(cmd))
    /\ ~(Contains(cmd, S_ErrorColon) \/ Contains(cmd, S_cmdNotFound))

IsValid(cmd) ==
    /\ cmd # <<>>
    /\ ~(HasPrefix(cmd, S_Dollar) \/ HasPrefix(cmd, S_Hash) \/ HasPrefix(cmd, S_Gt))
    /\ TrimSpace(cmd) # <<>>
    /\ ~Contains(cmd, <<"\n">>)
    /\ ~(Contains(cmd, S_drwx) \/ Contains(cmd, S_total))
    /\ ~AtoiOk(TrimSpace(cmd))
    /\ ~(Contains(cmd, S_ErrorColon) \/ Contains(cmd, S_cmdNotFound))

\* a parser that keeps one copy of each command
ParseCommands_Dedup(response) ==
    LET kept == SelectSeq(MapTrim(SplitLines(TrimSpace(response))), IsValid)
    IN  SelectSeq([i \in 1..Len(kept) |-> IF \E j \in 1..(i - 1) : kept[j] = kept[i] THEN <<>> ELSE kept[i]],
                  LAMBDA c : c # <<>>)

\* a parser that keeps every non-empty line
ParseCommands_Unchecked(response) ==
    SelectSeq(MapTrim(SplitLines(TrimSpace(response))), LAMBDA cmd : cmd # <<>>)

ParseCommands(response) ==
    LET r == TrimSpace(response)
    IN  IF r = <<>> THEN <<>>
        ELSE SelectSeq(MapTrim(SplitLines(r)), LAMBDA cmd : cmd # <<>> /\ IsValid(cmd))

----------------------------------------------------------------------------
(* AIEvaluator.  A reply of the language model is [err, text]: GenerateResponse
   returns ("", err) or (text, nil). *)

LLMError == [err |-> TRUE, text |-> <<>>]
LLMText(t) == [err |-> FALSE, text |-> t]

\* (achieved, err)
checkGoalAchievement(log, request, reply) ==
    IF reply.err THEN [achieved |-> FALSE, err |-> TRUE]
    ELSE LET cleanResponse == TrimSpace(ToUpper(reply.text))
             result == \/ cleanResponse = S_YES
                       \/ cleanResponse = S_Y
                       \/ Contains(cleanResponse, S_YES)
                       \/ Contains(cleanResponse, S_ACHIEVED)
                       \/ Contains(cleanResponse, S_COMPLETED)
                       \/ Contains(cleanResponse, S_SUCCESS)
             special == /\ Contains(ToLower(request), S_time)
                        /\ Contains(log, S_DollarDate)
                        /\ ~Contains(log, S_ErrorColon)
         IN  [achieved |-> (special \/ result), err |-> FALSE]

\* (commands, err)
determineNextCommands(reply) ==
    IF reply.err THEN [commands |-> <<>>, err |-> TRUE]
    ELSE LET response == TrimSpace(reply.text)
         IN  IF response = S_NONE \/ response = <<>>
             THEN [commands |-> <<>>, err |-> FALSE]
             ELSE [commands |-> ParseCommands(response), err |-> FALSE]

\* an unrecognized first line that lets the queue go on
DefaultDecision_Proceed == "proceed"

\* the default case of the switch on the first line
DefaultDecision == "stop"

\* (decision, newCommands, err)
evaluateCommandQueue(reply) ==
    IF reply.err THEN [decision |-> "", commands |-> <<>>, err |-> TRUE]
    ELSE LET response == TrimSpace(reply.text)
             lines == SplitLines(response)
             firstLine == TrimSpace(ToUpper(lines[1]))
         IN  CASE firstLine = S_PROCEED -> [decision |-> "proceed", commands |-> <<>>, err |-> FALSE]
               [] firstLine = S_STOP -> [decision |-> "stop", commands |-> <<>>, err |-> FALSE]
               [] firstLine = S_MODIFY ->
                    [decision |-> "modify",
                     commands |-> SelectSeq(MapTrim(Tail(lines)),
                                    LAMBDA cmd : cmd # <<>> /\ ~HasPrefix(cmd, S_Hash) /\ IsValid(cmd)),
                     err |-> FALSE]
               [] OTHER -> [decision |-> DefaultDecision, commands |-> <<>>, err |-> FALSE]

\* The result of one evaluation: (nextCommands, shouldContinue, error); "asked"
\* lists the prompts put to the language model on the way and "via" names the
\* return statement taken.
EvalResult(cmds, cont, err, asked, via) ==
    [commands |-> cmds, shouldContinue |-> cont, err |-> err, asked |-> asked, via |-> via]

\* a PROCEED that goes on with nothing to run
ProceedResult_Nothing(remainingCommands) == <<>>

\* a PROCEED that loses the head of the queue
ProceedResult_DropHead(remainingCommands) == Tail(remainingCommands)

\* case "proceed": return remainingCommands, true, nil
ProceedResult(remainingCommands) == remainingCommands

\* a MODIFY that keeps the old queue behind the new commands
ModifyResult_Merged(newCommands, remainingCommands) == newCommands \o remainingCommands

\* case "modify": return newCommands, len(newCommands) > 0, nil
ModifyResult(newCommands, remainingCommands) == newCommands

\* Step 2 to 4 of EvaluateAndGetNextCommands: the goal is not achieved
decideNext(remainingCommands, stepReply) ==
    IF Len(remainingCommands) = 0
    THEN LET n == determineNextCommands(stepReply)
         IN  IF n.err THEN EvalResult(<<>>, FALSE, TRUE, <<"goal", "next">>, "nextError")
             ELSE EvalResult(n.commands, Len(n.commands) > 0, FALSE, <<"goal", "next">>, "next")
    ELSE LET q == evaluateCommandQueue(stepReply)
             m == ModifyResult(q.commands, remainingCommands)
         IN  IF q.err THEN EvalResult(<<>>, FALSE, TRUE, <<"goal", "queue">>, "queueError")
             ELSE CASE q.decision = "proceed" -> EvalResult(ProceedResult(remainingCommands), TRUE, FALSE, <<"goal", "queue">>, "proceed")
                    [] q.decision = "modify" -> EvalResult(m, Len(m) > 0, FALSE, <<"goal", "queue">>, "modify")
                    [] q.decision = "stop" -> EvalResult(<<>>, FALSE, FALSE, <<"goal", "queue">>, "stop")
                    [] OTHER -> EvalResult(<<>>, FALSE, FALSE, <<"goal", "queue">>, "default")

\* an evaluation that goes on to the next step although the goal is achieved
EvaluateAndGetNextCommands_IgnoreAchieved(log, request, remainingCommands, hadError, goalReply, stepReply) ==
    LET goal == checkGoalAchievement(log, request, goalReply)
    IN  IF goal.err THEN EvalResult(<<>>, FALSE, TRUE, <<"goal">>, "goalError")
        ELSE decideNext(remainingCommands, stepReply)

\* Step 1: the goal check; then decideNext
EvaluateAndGetNextCommands(log, request, remainingCommands, hadError, goalReply, stepReply) ==
    LET goal == checkGoalAchievement(log, request, goalReply)
    IN  IF goal.err THEN EvalResult(<<>>, FALSE, TRUE, <<"goal">>, "goalError")
        ELSE IF goal.achieved THEN EvalResult(<<>>, FALSE, FALSE, <<"goal">>, "achieved")
        ELSE decideNext(remainingCommands, stepReply)

\* GenerateFinalAnswer: the two local fast paths, then the language model.
\* Returns (answer, err).  The 12-hour reformatting of a date line applies only
\* to a line of at least four fields; no output of the model has four fields,
\* so the time fast path always takes its fallback format.
S_ip == <<"i", "p">>
S_DollarIpconfig == <<"$", " ", "i", "p", "c", "o", "n", "f", "i", "g">>
S_DollarIfconfig == <<"$", " ", "i", "f", "c", "o", "n", "f", "i", "g">>
S_DollarCurl == <<"$", " ", "c", "u", "r", "l">>
S_CurrentTimeIs == <<"T", "h", "e", " ", "c", "u", "r", "r", "e", "n", "t", " ", "t", "i", "m", "e", " ", "i", "s", " ">>
S_YourIPIs == <<"Y", "o", "u", "r", " ", "I", "P", " ", "a", "d", "d", "r", "e", "s", "s", " ", "i", "s", " ">>

CountChar(s, c) == Cardinality({i \in 1..Len(s) : s[i] = c})

GenerateFinalAnswer(log, request, reply) ==
    LET lines == MapTrim(SplitLines(log))
        timeLines == SelectSeq(lines, LAMBDA l : l # <<>> /\ ~HasPrefix(l, S_Dollar) /\ ~HasPrefix(l, S_Hash))
        ipLines == SelectSeq(lines, LAMBDA l : /\ l # <<>> /\ ~HasPrefix(l, S_Dollar) /\ ~HasPrefix(l, S_Hash)
                                              /\ Contains(l, <<".">>) /\ CountChar(l, ".") >= 3)
    IN  IF Contains(ToLower(request), S_time) /\ Contains(log, S_DollarDate) /\ timeLines # <<>>
        THEN [text |-> S_CurrentTimeIs \o Head(timeLines) \o <<".">>, err |-> FALSE]
        ELSE IF /\ Contains(ToLower(request), S_ip)
                /\ (Contains(log, S_DollarIpconfig) \/ Contains(log, S_DollarIfconfig) \/ Contains(log, S_DollarCurl))
                /\ ipLines # <<>>
        THEN [text |-> S_YourIPIs \o Head(ipLines) \o <<".">>, err |-> FALSE]
        ELSE IF reply.err THEN [text |-> <<>>, err |-> TRUE]
        ELSE [text |-> TrimSpace(reply.text), err |-> FALSE]

----------------------------------------------------------------------------
(* Session: configuration, permission prompt, log blocks *)

DefaultMaxAttempts == 3

\* maxAttempts as every front-end computes it
EffectiveMaxAttempts == IF MaxAttempts <= 0 THEN DefaultMaxAttempts ELSE MaxAttempts

\* commands that run without being put to the user
AskFirst_Never == FALSE

\* if !s.config.AutoApprove: the command is put to the user before it runs
AskFirst == ~AutoApprove

\* a prompt that compares the answer as typed
requestPermission_CaseSensitive(line) ==
    LET permission == TrimSpace(line)
    IN  permission = <<>> \/ permission = <<"y">> \/ permission = <<"y", "e", "s">>

\* requestPermission, given the line read from standard input
requestPermission(line) ==
    LET permission == TrimSpace(ToLower(line))
    IN  permission = <<>> \/ permission = <<"y">> \/ permission = <<"y", "e", "s">>

\* fmt.Sprintf("%d", n) for the attempt counts of the model
Itoa(n) ==
    LET d == <<"0", "1", "2", "3", "4", "5", "6", "7", "8", "9">>
    IN  IF n < 10 THEN <<d[n + 1]>> ELSE <<d[(n \div 10) + 1], d[(n % 10) + 1]>>

\* a success block without its "$ <command>" line
FormatSuccess_NoHeader(cmd, output) == output \o <<"\n", "\n">>

\* "$ %s\n%s\n\n"
FormatSuccess(cmd, output) == <<"$", " ">> \o cmd \o <<"\n">> \o output \o <<"\n", "\n">>

\* a failure logged as if the command had succeeded
FormatFailure_AsSuccess(cmd, output, errText) == FormatSuccess(cmd, output)

\* "$ %s\n%s\nError: %v\n\n" when output is non-empty, else "$ %s\nError: %v\n\n"
FormatFailure(cmd, output, errText) ==
    IF output # <<>>
    THEN <<"$", " ">> \o cmd \o <<"\n">> \o output \o <<"\n">> \o S_ErrorColon \o <<" ">> \o errText \o <<"\n", "\n">>
    ELSE <<"$", " ">> \o cmd \o <<"\n">> \o S_ErrorColon \o <<" ">> \o errText \o <<"\n", "\n">>

\* InlineModel logs a failure without the captured output: "$ %s\nError: %v\n\n"
FormatFailureNoOutput(cmd, errText) ==
    <<"$", " ">> \o cmd \o <<"\n">> \o S_ErrorColon \o <<" ">> \o errText \o <<"\n", "\n">>

\* no marker at all
MaxAttemptsMarker_None(n) == <<>>

\* "\nMax attempts (%d) reached. Remaining commands not executed.\n"
MaxAttemptsMarker(n) ==
    <<"\n", "M", "a", "x", " ", "a", "t", "t", "e", "m", "p", "t", "s", " ", "(">> \o Itoa(n)
    \o <<")", " ", "r", "e", "a", "c", "h", "e", "d", ".", " ", "R", "e", "m", "a", "i", "n", "i", "n", "g", " ", "c", "o", "m", "m", "a", "n", "d", "s", " ", "n", "o", "t", " ", "e", "x", "e", "c", "u", "t", "e", "d", ".", "\n">>

S_Cancelled == <<"C", "o", "m", "m", "a", "n", "d", " ", "e", "x", "e", "c", "u", "t", "i", "o", "n", " ", "c", "a", "n", "c", "e", "l", "l", "e", "d", " ", "b", "y", " ", "u", "s", "e", "r", ".">>

----------------------------------------------------------------------------
(* Bounds and the inputs the environment may supply *)

MaxRequests == 2        \* top-level requests per run
MaxCfgAttempts == 2     \* SessionConfig.MaxAttempts ranges over 0..MaxCfgAttempts
MaxExecs == 3           \* Execute calls per run of an event-driven front-end (its log is never reset)

FrontEnds == {"Session", "SimpleSession", "InlineModel", "Model"}

Requests == { <<"t", "i", "m", "e", "?">> }

\* replies of the language model to the user's request
InitialReplies ==
    { LLMError,
      LLMText(<<"#", " ", "h", "i">>),
      LLMText(<<"d", "a", "t", "e">>),
      LLMText(<<"l", "s", "\n", "n", "o", "p", "e">>),
      LLMText(<<"#", " ", "o", "n", "e", "\n", "l", "s", "\n", "4", "2", "\n", " ", "n", "o", "p", "e", "\n", "p", "w", "d", "\n">>) }

\* replies to the goal-achievement prompt
GoalReplies == { LLMError, LLMText(<<"Y", "E", "S">>), LLMText(<<"N", "O">>) }

\* replies to the next-commands prompt (no command queued)
NextReplies == { LLMError, LLMText(<<"N", "O", "N", "E">>), LLMText(<<"n", "o", "n", "e">>), LLMText(<<"p", "w", "d">>) }

\* replies to the queue-decision prompt (commands queued)
QueueReplies ==
    { LLMError, LLMText(<<"P", "R", "O", "C", "E", "E", "D">>), LLMText(<<"S", "T", "O", "P">>), LLMText(<<"M", "O", "D", "I", "F", "Y", "\n", "p", "w", "d">>),
      LLMText(<<"M", "O", "D", "I", "F", "Y", "\n", "#", " ", "x">>), LLMText(<<"O", "K">>) }

\* replies to the final-answer prompt
FinalReplies == { LLMError, LLMText(<<>>), LLMText(<<"D", "o", "n", "e", ".">>) }

\* lines typed at the permission prompt
UserLines == { <<"\n">>, <<"y", "\n">>, <<"Y", "E", "S", "\n">>, <<"n", "\n">>, <<"N", "o", "\n">>, <<"x", "\n">> }

\* CommandExecutor.Execute: (output, err) of running a command through the shell
S_CommandFailed == <<"c", "o", "m", "m", "a", "n", "d", " ", "f", "a", "i", "l", "e", "d", ":", " ", "e", "x", "i", "t", " ", "s", "t", "a", "t", "u", "s", " ", "1">>
ExecOutcomes ==
    { [output |-> <<"h", "i", "\n">>, failed |-> FALSE],
      [output |-> <<>>, failed |-> TRUE],
      [output |-> <<"n", "o", "\n">>, failed |-> TRUE] }

----------------------------------------------------------------------------
(* Observation record: what the environment saw during the current request *)

NoEval == [via |-> "none"]
NoCmd == [kind |-> "none"]
NoRet == [kind |-> "none"]

HistInit ==
    [requests |-> 0,        \* top-level requests started
     launched |-> 0,        \* Execute calls started by tea.Cmds since the program started
     prompted |-> <<>>,     \* commands shown at the permission prompt
     answers |-> <<>>,      \* the user's answers, TRUE = approved
     execd |-> <<>>,        \* commands passed to CommandExecutor.Execute
     startQueue |-> <<>>,   \* the queue at the start of the current attempt
     ran |-> <<>>,          \* (cmd, failed) of the commands executed in the current attempt
     attempts |-> 0,        \* attempts begun
     evalCalls |-> 0,       \* EvaluateAndGetNextCommands calls
     lastEval |-> NoEval,   \* arguments and result of the latest one
     allOne |-> TRUE,       \* every one of them returned shouldContinue with exactly one command
     finals |-> 0,          \* GenerateFinalAnswer calls
     stores |-> 0,          \* StoreExecutionSession calls
     storedLog |-> <<>>,    \* the log passed to the latest one
     exit |-> "none"]       \* how executeCommandsIteratively returned

NewRequest(h) == [HistInit EXCEPT !.requests = h.requests + 1, !.launched = h.launched]

BeginAttempt(h, queue) == [h EXCEPT !.startQueue = queue, !.ran = <<>>, !.attempts = @ + 1]

Presented(h, cmd) == [h EXCEPT !.prompted = Append(@, cmd)]
Answered(h, ok) == [h EXCEPT !.answers = Append(@, ok)]
Prompted(h, cmd, ok) == Answered(Presented(h, cmd), ok)

Executed(h, cmd, o) ==
    [h EXCEPT !.execd = Append(@, cmd),
              !.ran = Append(@, [cmd |-> cmd, failed |-> o.failed, output |-> o.output])]

Launched(h) == [h EXCEPT !.launched = @ + 1]

Evaluated(h, remaining, hadError, r) ==
    [h EXCEPT !.evalCalls = @ + 1,
              !.allOne = @ /\ r.shouldContinue /\ Len(r.commands) = 1,
              !.lastEval = [via |-> r.via, remaining |-> remaining, hadError |-> hadError,
                            commands |-> r.commands, shouldContinue |-> r.shouldContinue,
                            err |-> r.err, asked |-> r.asked, log |-> executionLog,
                            attemptNo |-> h.attempts, startQueue |-> h.startQueue, ran |-> h.ran]]

----------------------------------------------------------------------------
(* Initial states *)

\* no auto-indexer is configured (auto_index.enabled defaults to false)
EvIdle == [phase |-> "idle", autoIndexer |-> FALSE, running |-> 0]

\* the go statement after a successful command: the detached auto-index task
StartAutoIndex(e) == IF e.autoIndexer THEN [e EXCEPT !.running = @ + 1] ELSE e

AfterExecute_AlsoOnFailure(e, failed) == StartAutoIndex(e)

\* the auto-indexer's side of one executed command
AfterExecute(e, failed) == IF failed THEN e ELSE StartAutoIndex(e)

Init ==
    /\ ev = EvIdle
    /\ fe \in FrontEnds
    /\ AutoApprove \in BOOLEAN
    /\ MaxAttempts \in 0..MaxCfgAttempts
    /\ pc = "input"
    /\ originalRequest = <<>>
    /\ commandQueue = <<>>
    /\ executionLog = <<>>
    /\ attempt = 0
    /\ lastErr = FALSE
    /\ pendingCommand = <<>>
    /\ inflight = NoCmd
    /\ ret = NoRet
    /\ hist = HistInit

----------------------------------------------------------------------------
(* Session (session.go): processResponseWithCommands and executeCommandsIteratively *)

\* executeCommandsIteratively is not entered: its locals (executionLog,
\* commandQueue, attempt, lastErr) do not exist
Session_NotStarted ==
    /\ pc' = "input"
    /\ commandQueue' = <<>>
    /\ executionLog' = <<>>
    /\ attempt' = 0
    /\ lastErr' = FALSE

\* HandlePrompt / InteractiveSession.handleInput up to the first loop test of
\* executeCommandsIteratively (session.go 71-107, 244-256)
Session_HandlePrompt ==
    /\ fe = "Session" /\ pc = "input" /\ hist.requests < MaxRequests
    /\ \E request \in Requests, reply \in InitialReplies :
         LET validCommands == ParseCommands(reply.text)
         IN  /\ originalRequest' = request
             /\ IF reply.err
                THEN /\ ret' = [kind |-> "error"]
                     /\ hist' = NewRequest(hist)
                     /\ Session_NotStarted
                ELSE IF Len(validCommands) = 0
                THEN /\ ret' = [kind |-> "response", text |-> reply.text]
                     /\ hist' = NewRequest(hist)
                     /\ Session_NotStarted
                ELSE /\ executionLog' = <<>>
                     /\ commandQueue' = validCommands
                     /\ lastErr' = FALSE
                     /\ attempt' = 1
                     /\ pc' = "drain"
                     /\ ret' = NoRet
                     /\ hist' = BeginAttempt(NewRequest(hist), validCommands)
    /\ UNCHANGED <<ev, fe, AutoApprove, MaxAttempts, pendingCommand, inflight>>

\* a loop that stops one attempt short
Session_LoopTest_OneShort(a, queue) == a < EffectiveMaxAttempts /\ Len(queue) > 0

\* a denial that only leaves the inner loop, so that the evaluation still runs
Session_AfterDenial_BreakOnly == "evaluate"

\* a failure that does not stop the drain
Session_AfterFailure_KeepDraining(rest) == IF rest = <<>> THEN "evaluate" ELSE "drain"

\* a loop that allows one attempt more
Session_LoopTest_OneMore(a, queue) == a <= EffectiveMaxAttempts + 1 /\ Len(queue) > 0

\* the test of the attempt loop: attempt <= maxAttempts && len(commandQueue) > 0
Session_LoopTest(a, queue) == a <= EffectiveMaxAttempts /\ Len(queue) > 0

\* where control goes when the user denies a command: the function returns
Session_AfterDenial == "input"

\* an evaluation error after which the queue is drained again
Session_AfterEvalError_Retry == "drain"

\* if evalErr != nil { fmt.Printf(...); break }: out of the attempt loop
Session_AfterEvalError == "finish"

\* where control goes when a command fails: break out of the inner loop
Session_AfterFailure(rest) == "evaluate"

\* one iteration of the inner loop (session.go 263-316)
Session_ExecuteCommand ==
    /\ fe = "Session" /\ pc = "drain" /\ commandQueue # <<>>
    /\ LET cmdStr == Head(commandQueue)
       IN  /\ commandQueue' = Tail(commandQueue)
           /\ \E line \in UserLines, o \in ExecOutcomes :
                LET asked == AskFirst
                    h1 == IF asked THEN Prompted(hist, cmdStr, requestPermission(line)) ELSE hist
                IN  IF asked /\ ~requestPermission(line)
                    THEN /\ ret' = [kind |-> "text", text |-> S_Cancelled]
                         /\ pc' = Session_AfterDenial
                         /\ hist' = [h1 EXCEPT !.exit = "denied"]
                         /\ UNCHANGED <<executionLog, lastErr, ev>>
                    ELSE /\ hist' = Executed(h1, cmdStr, o)
                         /\ ret' = ret
                         /\ ev' = AfterExecute(ev, o.failed)
                         /\ IF o.failed
                            THEN /\ executionLog' = executionLog \o FormatFailure(cmdStr, o.output, S_CommandFailed)
                                 /\ lastErr' = TRUE
                                 /\ pc' = Session_AfterFailure(Tail(commandQueue))
                            ELSE /\ executionLog' = executionLog \o FormatSuccess(cmdStr, o.output)
                                 /\ lastErr' = FALSE
                                 /\ pc' = IF Tail(commandQueue) = <<>> THEN "evaluate" ELSE "drain"
    /\ UNCHANGED <<fe, AutoApprove, MaxAttempts, originalRequest, attempt, pendingCommand, inflight>>

\* the evaluation after the inner loop, the loop increment and the loop test
\* (session.go 318-370, 256)
Session_Evaluate ==
    /\ fe = "Session" /\ pc = "evaluate"
    /\ \E goalReply \in GoalReplies,
          stepReply \in (IF commandQueue = <<>> THEN NextReplies ELSE QueueReplies),
          finalReply \in FinalReplies :
         LET r == EvaluateAndGetNextCommands(executionLog, originalRequest, commandQueue, lastErr, goalReply, stepReply)
             h1 == Evaluated(hist, commandQueue, lastErr, r)
             fa == GenerateFinalAnswer(executionLog, originalRequest, finalReply)
         IN  IF r.err
             THEN /\ pc' = Session_AfterEvalError
                  /\ hist' = h1
                  /\ UNCHANGED <<commandQueue, attempt, ret>>
             ELSE IF ~r.shouldContinue
             THEN IF ~lastErr /\ Len(commandQueue) = 0
                  THEN IF ~fa.err /\ fa.text # <<>>
                       THEN /\ ret' = [kind |-> "text", text |-> fa.text]
                            /\ pc' = "input"
                            /\ hist' = [h1 EXCEPT !.finals = @ + 1, !.exit = "answer"]
                            /\ UNCHANGED <<commandQueue, attempt>>
                       ELSE /\ pc' = "finish"
                            /\ hist' = [h1 EXCEPT !.finals = @ + 1]
                            /\ UNCHANGED <<commandQueue, attempt, ret>>
                  ELSE /\ pc' = "finish"
                       /\ hist' = h1
                       /\ UNCHANGED <<commandQueue, attempt, ret>>
             ELSE /\ commandQueue' = r.commands
                  /\ attempt' = attempt + 1
                  /\ ret' = ret
                  /\ IF Session_LoopTest(attempt + 1, r.commands)
                     THEN /\ pc' = "drain"
                          /\ hist' = BeginAttempt(h1, r.commands)
                     ELSE /\ pc' = "finish"
                          /\ hist' = h1
    /\ UNCHANGED <<ev, fe, AutoApprove, MaxAttempts, originalRequest, executionLog, lastErr, pendingCommand, inflight>>

\* after the attempt loop (session.go 372-386)
Session_Finish ==
    /\ fe = "Session" /\ pc = "finish"
    /\ executionLog' = IF Len(commandQueue) > 0
                       THEN executionLog \o MaxAttemptsMarker(EffectiveMaxAttempts)
                       ELSE executionLog
    /\ hist' = [hist EXCEPT !.stores = @ + 1, !.storedLog = executionLog', !.exit = "finished"]
    /\ ret' = [kind |-> "text", text |-> executionLog']
    /\ pc' = "input"
    /\ UNCHANGED <<ev, fe, AutoApprove, MaxAttempts, originalRequest, commandQueue, attempt, lastErr, pendingCommand, inflight>>

SessionNext == Session_HandlePrompt \/ Session_ExecuteCommand \/ Session_Evaluate \/ Session_Finish

----------------------------------------------------------------------------
(* SimpleSession: handleUserInput and executeCommandsIteratively.  commandQueue,
   currentAttempt and executionLog are fields of the SimpleSession and outlive
   the call; lastErr is a local. *)

\* handleUserInput up to the first loop test (106-151, 163)
Simple_handleUserInput ==
    /\ fe = "SimpleSession" /\ pc = "input" /\ hist.requests < MaxRequests
    /\ \E request \in Requests, reply \in InitialReplies :
         LET validCommands == ParseCommands(reply.text)
         IN  /\ originalRequest' = request
             /\ lastErr' = FALSE
             /\ IF reply.err
                THEN /\ ret' = [kind |-> "error"]
                     /\ hist' = NewRequest(hist)
                     /\ UNCHANGED <<pc, commandQueue, executionLog, attempt>>
                ELSE IF Len(validCommands) = 0
                THEN /\ ret' = [kind |-> "nil"]
                     /\ hist' = NewRequest(hist)
                     /\ UNCHANGED <<pc, commandQueue, executionLog, attempt>>
                ELSE /\ commandQueue' = validCommands
                     /\ attempt' = 1
                     /\ executionLog' = <<>>
                     /\ pc' = "drain"
                     /\ ret' = NoRet
                     /\ hist' = BeginAttempt(NewRequest(hist), validCommands)
    /\ UNCHANGED <<ev, fe, AutoApprove, MaxAttempts, pendingCommand, inflight>>

\* one iteration of the inner loop (164-218)
Simple_ExecuteCommand ==
    /\ fe = "SimpleSession" /\ pc = "drain" /\ commandQueue # <<>>
    /\ LET command == Head(commandQueue)
       IN  /\ commandQueue' = Tail(commandQueue)
           /\ \E line \in UserLines, o \in ExecOutcomes :
                LET asked == AskFirst
                    h1 == IF asked THEN Prompted(hist, command, requestPermission(line)) ELSE hist
                IN  IF asked /\ ~requestPermission(line)
                    THEN /\ ret' = [kind |-> "nil"]
                         /\ pc' = "input"
                         /\ hist' = [h1 EXCEPT !.exit = "denied"]
                         /\ UNCHANGED <<executionLog, lastErr, ev>>
                    ELSE /\ hist' = Executed(h1, command, o)
                         /\ ret' = ret
                         /\ ev' = AfterExecute(ev, o.failed)
                         /\ IF o.failed
                            THEN /\ executionLog' = executionLog \o FormatFailure(command, o.output, S_CommandFailed)
                                 /\ lastErr' = TRUE
                                 /\ pc' = "evaluate"
                            ELSE /\ executionLog' = executionLog \o FormatSuccess(command, o.output)
                                 /\ lastErr' = FALSE
                                 /\ pc' = IF Tail(commandQueue) = <<>> THEN "evaluate" ELSE "drain"
    /\ UNCHANGED <<fe, AutoApprove, MaxAttempts, originalRequest, attempt, pendingCommand, inflight>>

\* the evaluation after the inner loop, then the loop test and the reset of
\* lastErr at the head of the next attempt (220-269, 151, 163)
Simple_Evaluate ==
    /\ fe = "SimpleSession" /\ pc = "evaluate"
    /\ \E goalReply \in GoalReplies,
          stepReply \in (IF commandQueue = <<>> THEN NextReplies ELSE QueueReplies) :
         LET r == EvaluateAndGetNextCommands(executionLog, originalRequest, commandQueue, lastErr, goalReply, stepReply)
             h1 == Evaluated(hist, commandQueue, lastErr, r)
         IN  IF r.err
             THEN /\ pc' = "finish"
                  /\ hist' = h1
                  /\ UNCHANGED <<commandQueue, attempt, lastErr>>
             ELSE IF ~r.shouldContinue
             THEN /\ pc' = "finish"
                  /\ hist' = [h1 EXCEPT !.finals = @ + 1]
                  /\ UNCHANGED <<commandQueue, attempt, lastErr>>
             ELSE /\ commandQueue' = r.commands
                  /\ attempt' = attempt + 1
                  /\ IF attempt + 1 <= EffectiveMaxAttempts /\ Len(r.commands) > 0
                     THEN /\ pc' = "drain"
                          /\ lastErr' = FALSE
                          /\ hist' = BeginAttempt(h1, r.commands)
                     ELSE /\ pc' = "finish"
                          /\ lastErr' = lastErr
                          /\ hist' = h1
    /\ UNCHANGED <<ev, fe, AutoApprove, MaxAttempts, originalRequest, executionLog, pendingCommand, inflight, ret>>

\* after the attempt loop (271-280): the marker is printed, not logged
Simple_Finish ==
    /\ fe = "SimpleSession" /\ pc = "finish"
    /\ hist' = [hist EXCEPT !.stores = @ + 1, !.storedLog = executionLog, !.exit = "finished"]
    /\ ret' = [kind |-> "nil"]
    /\ pc' = "input"
    /\ UNCHANGED <<ev, fe, AutoApprove, MaxAttempts, originalRequest, commandQueue, executionLog, attempt, lastErr, pendingCommand, inflight>>

SimpleNext == Simple_handleUserInput \/ Simple_ExecuteCommand \/ Simple_Evaluate \/ Simple_Finish

----------------------------------------------------------------------------
(* InlineModel (inline.go): the Bubble Tea Update handlers.  pc is m.state;
   inflight is the tea.Cmd a handler returned.  The handler of a message is
   modelled together with the tea.Cmd that produces the message: no other
   handler changes the model while a tea.Cmd runs, because every key handler
   is disabled in state "processing". *)

ApproveKeys == {"enter", "y", "Y"}
DenyKeys == {"n", "N", "esc"}

\* executeNextCommand (inline.go 272-314) on queue q and attempt a
Inline_executeNextCommand(q, a, h) ==
    IF Len(q) = 0
    THEN /\ commandQueue' = q
         /\ pendingCommand' = pendingCommand
         /\ IF a >= EffectiveMaxAttempts
            THEN /\ pc' = "input"
                 /\ inflight' = NoCmd
                 /\ hist' = [h EXCEPT !.exit = "maxAttempts"]
            ELSE /\ pc' = pc
                 /\ inflight' = [kind |-> "evaluate"]
                 /\ hist' = h
    ELSE /\ commandQueue' = Tail(q)
         /\ IF AskFirst
            THEN /\ pendingCommand' = Head(q)
                 /\ pc' = "approval"
                 /\ inflight' = NoCmd
                 /\ hist' = Presented(h, Head(q))
            ELSE /\ pendingCommand' = pendingCommand
                 /\ pc' = pc
                 /\ inflight' = [kind |-> "execute", command |-> Head(q)]
                 /\ hist' = h

\* KeyMsg "enter" in state "input" (inline.go 89-94, 231-264)
Inline_handleInput ==
    /\ fe = "InlineModel" /\ pc = "input" /\ hist.requests < MaxRequests
    /\ \E input \in Requests : originalRequest' = input
    /\ pc' = "processing"
    /\ inflight' = [kind |-> "respond"]
    /\ hist' = NewRequest(hist)
    /\ UNCHANGED <<ev, fe, AutoApprove, MaxAttempts, commandQueue, executionLog, attempt, lastErr, pendingCommand, ret>>

\* aiResponseMsg (inline.go 108-123) and handleCommands (266-270)
Inline_aiResponseMsg ==
    /\ fe = "InlineModel" /\ inflight.kind = "respond"
    /\ \E reply \in InitialReplies :
         LET validCommands == ParseCommands(reply.text)
         IN  IF reply.err \/ Len(validCommands) = 0
             THEN /\ pc' = "input"
                  /\ inflight' = NoCmd
                  /\ UNCHANGED <<commandQueue, attempt, pendingCommand, hist>>
             ELSE /\ attempt' = 1
                  /\ Inline_executeNextCommand(validCommands, 1, BeginAttempt(hist, validCommands))
    /\ UNCHANGED <<ev, fe, AutoApprove, MaxAttempts, originalRequest, executionLog, lastErr, ret>>

\* KeyMsg "enter", "y", "Y" in state "approval" (inline.go 101-102, 316-326)
Inline_approveCommand ==
    /\ fe = "InlineModel" /\ pc = "approval"
    /\ \E key \in ApproveKeys :
         /\ inflight' = [kind |-> "execute", command |-> pendingCommand]
         /\ pendingCommand' = <<>>
         /\ pc' = "processing"
         /\ hist' = Answered(hist, TRUE)
    /\ UNCHANGED <<ev, fe, AutoApprove, MaxAttempts, originalRequest, commandQueue, executionLog, attempt, lastErr, ret>>

\* KeyMsg "n", "N", "esc" in state "approval" (inline.go 103-104, 328-335)
Inline_denyCommand ==
    /\ fe = "InlineModel" /\ pc = "approval"
    /\ \E key \in DenyKeys :
         /\ pendingCommand' = <<>>
         /\ pc' = "input"
         /\ hist' = [Answered(hist, FALSE) EXCEPT !.exit = "denied"]
    /\ UNCHANGED <<ev, fe, AutoApprove, MaxAttempts, originalRequest, commandQueue, executionLog, attempt, lastErr, inflight, ret>>

\* the tea.Cmd calling Execute (inline.go 309-312, 322-325) and commandExecutedMsg (125-154)
Inline_commandExecutedMsg ==
    /\ fe = "InlineModel" /\ inflight.kind = "execute" /\ hist.launched < MaxExecs
    /\ \E o \in ExecOutcomes :
         /\ executionLog' = IF o.failed
                            THEN executionLog \o FormatFailureNoOutput(inflight.command, S_CommandFailed)
                            ELSE executionLog \o FormatSuccess(inflight.command, o.output)
         /\ Inline_executeNextCommand(commandQueue, attempt, Launched(Executed(hist, inflight.command, o)))
         /\ ev' = AfterExecute(ev, o.failed)
    /\ UNCHANGED <<fe, AutoApprove, MaxAttempts, originalRequest, attempt, lastErr, ret>>

\* the tea.Cmd calling the Evaluator (inline.go 287-295) and nextCommandsMsg (156-177)
Inline_nextCommandsMsg ==
    /\ fe = "InlineModel" /\ inflight.kind = "evaluate"
    /\ \E goalReply \in GoalReplies,
          stepReply \in (IF commandQueue = <<>> THEN NextReplies ELSE QueueReplies) :
         LET r == EvaluateAndGetNextCommands(executionLog, originalRequest, commandQueue, FALSE, goalReply, stepReply)
             h1 == Evaluated(hist, commandQueue, FALSE, r)
         IN  IF r.err
             THEN /\ pc' = "input"
                  /\ inflight' = NoCmd
                  /\ hist' = [h1 EXCEPT !.exit = "evalError"]
                  /\ UNCHANGED <<commandQueue, attempt, pendingCommand>>
             ELSE IF ~r.shouldContinue
             THEN /\ inflight' = [kind |-> "final"]
                  /\ hist' = h1
                  /\ UNCHANGED <<pc, commandQueue, attempt, pendingCommand>>
             ELSE /\ attempt' = attempt + 1
                  /\ Inline_executeNextCommand(r.commands, attempt + 1, BeginAttempt(h1, r.commands))
    /\ UNCHANGED <<ev, fe, AutoApprove, MaxAttempts, originalRequest, executionLog, lastErr, ret>>

\* the tea.Cmd calling GenerateFinalAnswer (inline.go 165-168) and finalAnswerMsg (179-188)
Inline_finalAnswerMsg ==
    /\ fe = "InlineModel" /\ inflight.kind = "final"
    /\ pc' = "input"
    /\ inflight' = NoCmd
    /\ hist' = [hist EXCEPT !.finals = @ + 1, !.exit = "answer"]
    /\ UNCHANGED <<ev, fe, AutoApprove, MaxAttempts, originalRequest, commandQueue, executionLog, attempt, lastErr, pendingCommand, ret>>

InlineNext ==
    \/ Inline_handleInput \/ Inline_aiResponseMsg \/ Inline_approveCommand \/ Inline_denyCommand
    \/ Inline_commandExecutedMsg \/ Inline_nextCommandsMsg \/ Inline_finalAnswerMsg

----------------------------------------------------------------------------
(* Model, the full-screen front-end: the Bubble Tea Update handlers.  pc is
   m.state ("input" = stateInput, "processing" = stateProcessing,
   "approval" = stateWaitingApproval). *)

\* executeNextCommand and evaluateExecution on queue q and attempt a
Model_executeNextCommand(q, a, h) ==
    IF Len(q) = 0
    THEN /\ commandQueue' = q
         /\ pendingCommand' = pendingCommand
         /\ IF a >= EffectiveMaxAttempts
            THEN /\ pc' = "input"
                 /\ inflight' = NoCmd
                 /\ hist' = [h EXCEPT !.exit = "maxAttempts"]
            ELSE /\ pc' = "processing"
                 /\ inflight' = [kind |-> "evaluate"]
                 /\ hist' = h
    ELSE /\ commandQueue' = Tail(q)
         /\ IF AskFirst
            THEN /\ pendingCommand' = Head(q)
                 /\ pc' = "approval"
                 /\ inflight' = NoCmd
                 /\ hist' = Presented(h, Head(q))
            ELSE /\ pendingCommand' = pendingCommand
                 /\ pc' = "processing"
                 /\ inflight' = [kind |-> "execute", command |-> Head(q)]
                 /\ hist' = h

\* KeyMsg "tab" in stateInput: sendMessage
Model_sendMessage ==
    /\ fe = "Model" /\ pc = "input" /\ hist.requests < MaxRequests
    /\ \E input \in Requests : originalRequest' = input
    /\ pc' = "processing"
    /\ inflight' = [kind |-> "respond"]
    /\ hist' = NewRequest(hist)
    /\ UNCHANGED <<ev, fe, AutoApprove, MaxAttempts, commandQueue, executionLog, attempt, lastErr, pendingCommand, ret>>

\* aiResponseMsg, and executeCommands when auto-approve is on
Model_aiResponseMsg ==
    /\ fe = "Model" /\ inflight.kind = "respond"
    /\ \E reply \in InitialReplies :
         LET validCommands == ParseCommands(reply.text)
         IN  IF reply.err \/ Len(validCommands) = 0
             THEN /\ pc' = "input"
                  /\ inflight' = NoCmd
                  /\ UNCHANGED <<commandQueue, attempt, pendingCommand, hist>>
             ELSE IF AskFirst
             THEN /\ pendingCommand' = validCommands[1]
                  /\ pc' = "approval"
                  /\ inflight' = NoCmd
                  /\ hist' = Presented(hist, validCommands[1])
                  /\ UNCHANGED <<commandQueue, attempt>>
             ELSE /\ attempt' = 1
                  /\ Model_executeNextCommand(validCommands, 1, BeginAttempt(hist, validCommands))
    /\ UNCHANGED <<ev, fe, AutoApprove, MaxAttempts, originalRequest, executionLog, lastErr, ret>>

\* KeyMsg "enter", "y", "Y" in stateWaitingApproval: approveCommand
Model_approveCommand ==
    /\ fe = "Model" /\ pc = "approval"
    /\ \E key \in ApproveKeys :
         IF pendingCommand = <<>>
         THEN /\ pc' = "input"
              /\ UNCHANGED <<inflight, pendingCommand, hist>>
         ELSE /\ inflight' = [kind |-> "execute", command |-> pendingCommand]
              /\ pendingCommand' = <<>>
              /\ pc' = "processing"
              /\ hist' = Answered(hist, TRUE)
    /\ UNCHANGED <<ev, fe, AutoApprove, MaxAttempts, originalRequest, commandQueue, executionLog, attempt, lastErr, ret>>

\* KeyMsg "n", "N", "esc" in stateWaitingApproval: denyCommand
Model_denyCommand ==
    /\ fe = "Model" /\ pc = "approval"
    /\ \E key \in DenyKeys :
         /\ pendingCommand' = <<>>
         /\ pc' = "input"
         /\ hist' = [Answered(hist, FALSE) EXCEPT !.exit = "denied"]
    /\ UNCHANGED <<ev, fe, AutoApprove, MaxAttempts, originalRequest, commandQueue, executionLog, attempt, lastErr, inflight, ret>>

\* the tea.Cmd calling Execute and commandExecutedMsg
Model_commandExecutedMsg ==
    /\ fe = "Model" /\ inflight.kind = "execute" /\ hist.launched < MaxExecs
    /\ \E o \in ExecOutcomes :
         /\ executionLog' = IF o.failed
                            THEN executionLog \o FormatFailure(inflight.command, o.output, S_CommandFailed)
                            ELSE executionLog \o FormatSuccess(inflight.command, o.output)
         /\ Model_executeNextCommand(commandQueue, attempt, Launched(Executed(hist, inflight.command, o)))
         /\ ev' = AfterExecute(ev, o.failed)
    /\ UNCHANGED <<fe, AutoApprove, MaxAttempts, originalRequest, attempt, lastErr, ret>>

\* the tea.Cmd calling the Evaluator (evaluateExecution) and nextCommandsMsg
Model_nextCommandsMsg ==
    /\ fe = "Model" /\ inflight.kind = "evaluate"
    /\ \E goalReply \in GoalReplies,
          stepReply \in (IF commandQueue = <<>> THEN NextReplies ELSE QueueReplies) :
         LET r == EvaluateAndGetNextCommands(executionLog, originalRequest, commandQueue, FALSE, goalReply, stepReply)
             h1 == Evaluated(hist, commandQueue, FALSE, r)
         IN  IF r.err
             THEN /\ pc' = "input"
                  /\ inflight' = NoCmd
                  /\ hist' = [h1 EXCEPT !.exit = "evalError"]
                  /\ UNCHANGED <<commandQueue, attempt, pendingCommand>>
             ELSE IF ~r.shouldContinue
             THEN /\ pc' = "processing"
                  /\ inflight' = [kind |-> "final"]
                  /\ hist' = h1
                  /\ UNCHANGED <<commandQueue, attempt, pendingCommand>>
             ELSE /\ attempt' = attempt + 1
                  /\ Model_executeNextCommand(r.commands, attempt + 1, BeginAttempt(h1, r.commands))
    /\ UNCHANGED <<ev, fe, AutoApprove, MaxAttempts, originalRequest, executionLog, lastErr, ret>>

\* the tea.Cmd calling GenerateFinalAnswer and finalAnswerMsg
Model_finalAnswerMsg ==
    /\ fe = "Model" /\ inflight.kind = "final"
    /\ pc' = "input"
    /\ inflight' = NoCmd
    /\ hist' = [hist EXCEPT !.finals = @ + 1, !.exit = "answer"]
    /\ UNCHANGED <<ev, fe, AutoApprove, MaxAttempts, originalRequest, commandQueue, executionLog, attempt, lastErr, pendingCommand, ret>>

ModelNext ==
    \/ Model_sendMessage \/ Model_aiResponseMsg \/ Model_approveCommand \/ Model_denyCommand
    \/ Model_commandExecutedMsg \/ Model_nextCommandsMsg \/ Model_finalAnswerMsg

----------------------------------------------------------------------------
(* The evaluator on its own: one EvaluateAndGetNextCommands call on inputs
   drawn from the sets below *)

EvRequests == { <<"t", "i", "m", "e", "?">>, <<"f", "i", "l", "e", "s">> }

EvLogs ==
    { FormatSuccess(<<"d", "a", "t", "e">>, <<"h", "i", "\n">>),
      FormatSuccess(<<"l", "s">>, <<"h", "i", "\n">>),
      FormatSuccess(<<"d", "a", "t", "e">>, <<"h", "i", "\n">>) \o FormatFailure(<<"n", "o", "p", "e">>, <<>>, S_CommandFailed) }

EvQueues == { <<>>, << <<"p", "w", "d">> >>, << <<"l", "s", " ", "-", "l">>, <<"p", "w", "d">> >> }

EvGoalReplies ==
    { LLMError, LLMText(<<"N", "O">>), LLMText(<<"Y", "E", "S">>), LLMText(<<" ", "y", "e", "s", ".", "\n">>),
      LLMText(<<"G", "o", "a", "l", " ", "a", "c", "h", "i", "e", "v", "e", "d">>), LLMText(<<"n", "o", "t", " ", "y", "e", "t">>) }

EvStepReplies ==
    { LLMError,
      LLMText(<<>>), LLMText(<<" ", "\n">>),
      LLMText(<<"N", "O", "N", "E">>), LLMText(<<"n", "o", "n", "e">>), LLMText(<<"N", "o", "n", "e", "\n">>), LLMText(<<" ", "N", "O", "N", "E", " ">>),
      LLMText(<<"p", "w", "d">>), LLMText(<<"$", " ", "l", "s", "\n", "l", "s", " ", "-", "a", "\n", "4", "2", "\n", "\n", "#", " ", "c", "\n", "l", "s", " ", "-", "a", "\n">>),
      LLMText(<<"P", "R", "O", "C", "E", "E", "D">>), LLMText(<<" ", "p", "r", "o", "c", "e", "e", "d", " ", "\n">>), LLMText(<<"P", "r", "o", "c", "e", "e", "d", "\n", "l", "s">>), LLMText(<<"P", "R", "O", "C", "E", "E", "D", ".">>),
      LLMText(<<"S", "T", "O", "P">>), LLMText(<<"s", "t", "o", "p", "\n">>),
      LLMText(<<"M", "O", "D", "I", "F", "Y">>), LLMText(<<"m", "o", "d", "i", "f", "y", "\n", " ", "l", "s", " ", "-", "a", " ", "\n", "#", " ", "c", "\n", "\n", "$", " ", "x", "\n", "7", "\n", "c", "a", "t", " ", "f", "\n", "l", "s", " ", "-", "a">>), LLMText(<<"M", "O", "D", "I", "F", "Y", "\n", "#", " ", "o", "n", "l", "y", "\n", "1", "2">>),
      LLMText(<<"M", "O", "D", "I", "F", "Y", ":", " ", "l", "s">>), LLMText(<<"O", "K">>), LLMText(<<"I", " ", "w", "o", "u", "l", "d", " ", "P", "R", "O", "C", "E", "E", "D">>), LLMText(<<"\n", "P", "R", "O", "C", "E", "E", "D">>) }

InitEval ==
    /\ ev \in [phase : {"in"}, log : EvLogs, request : EvRequests, remaining : EvQueues,
               hadError : BOOLEAN, goalReply : EvGoalReplies, stepReply : EvStepReplies,
               result : {NoEval}]
    /\ fe = "Evaluator"
    /\ AutoApprove = FALSE
    /\ MaxAttempts = 0
    /\ pc = "input"
    /\ originalRequest = <<>>
    /\ commandQueue = <<>>
    /\ executionLog = <<>>
    /\ attempt = 0
    /\ lastErr = FALSE
    /\ pendingCommand = <<>>
    /\ inflight = NoCmd
    /\ ret = NoRet
    /\ hist = HistInit

Eval_Call ==
    /\ ev.phase = "in"
    /\ ev' = [ev EXCEPT !.phase = "out",
                        !.result = EvaluateAndGetNextCommands(ev.log, ev.request, ev.remaining,
                                                              ev.hadError, ev.goalReply, ev.stepReply)]
    /\ UNCHANGED <<fe, AutoApprove, MaxAttempts, pc, originalRequest, commandQueue,
                   executionLog, attempt, lastErr, pendingCommand, inflight, ret, hist>>

SpecEval == InitEval /\ [][Eval_Call]_vars

----------------------------------------------------------------------------

\* the detached task ends: whatever DetectChanges and IndexChangedFiles
\* returned, it only prints
AutoIndex_TaskEnds ==
    /\ ev.phase = "idle" /\ ev.running > 0
    /\ \E failed \in BOOLEAN : ev' = [ev EXCEPT !.running = @ - 1]
    /\ UNCHANGED <<fe, AutoApprove, MaxAttempts, pc, originalRequest, commandQueue,
                   executionLog, attempt, lastErr, pendingCommand, inflight, ret, hist>>

Next == SessionNext \/ SimpleNext \/ InlineNext \/ ModelNext

Spec == Init /\ [][Next]_vars

\* the two blocking front-ends; every call made on the way returns, so a
\* step that can be taken is taken
InitRun ==
    /\ ev = EvIdle
    /\ fe \in {"Session", "SimpleSession"}
    /\ AutoApprove \in BOOLEAN
    /\ MaxAttempts \in 0..MaxCfgAttempts
    /\ pc = "input"
    /\ originalRequest = <<>>
    /\ commandQueue = <<>>
    /\ executionLog = <<>>
    /\ attempt = 0
    /\ lastErr = FALSE
    /\ pendingCommand = <<>>
    /\ inflight = NoCmd
    /\ ret = NoRet
    /\ hist = HistInit

RunNext == SessionNext \/ SimpleNext

\* the Evaluator's call returns and control leaves the evaluation: the step
\* Session_Evaluate or Simple_Evaluate takes, whatever the Evaluator answered
Evaluate_Returns ==
    /\ fe \in {"Session", "SimpleSession"} /\ pc = "evaluate"
    /\ pc' \in {"input", "drain", "finish"}

\* neither front-end waits for anything but the calls it makes, and each of
\* them returns
RunFairness ==
    /\ WF_vars(Session_ExecuteCommand) /\ WF_vars(Simple_ExecuteCommand)
    /\ WF_pc(Evaluate_Returns)
    /\ WF_vars(Session_Finish) /\ WF_vars(Simple_Finish)

SpecRunFair == InitRun /\ [][RunNext]_vars /\ RunFairness

\* the Agent Session started with --auto-approve, and with or without
\* --auto-index (the way the auto-indexing test starts it)
InitAuto ==
    /\ ev \in [phase : {"idle"}, autoIndexer : BOOLEAN, running : {0}]
    /\ fe = "Session"
    /\ AutoApprove = TRUE
    /\ MaxAttempts \in 1..MaxCfgAttempts
    /\ pc = "input"
    /\ originalRequest = <<>>
    /\ commandQueue = <<>>
    /\ executionLog = <<>>
    /\ attempt = 0
    /\ lastErr = FALSE
    /\ pendingCommand = <<>>
    /\ inflight = NoCmd
    /\ ret = NoRet
    /\ hist = HistInit

AutoNext == SessionNext \/ AutoIndex_TaskEnds

SpecAuto == InitAuto /\ [][AutoNext]_vars

----------------------------------------------------------------------------
(* CommandExecutor: Execute and executePipedCommand.  The shell is the
   environment: Sh gives, for the text passed to sh -c and the bytes on its
   standard input, what the process writes and its exit code. *)

S_Bar == <<" ", "|", " ">>

\* strings.Split(s, sep) for a non-empty separator
RECURSIVE SplitOn(_, _)
SplitOn(s, sep) ==
    LET at == {i \in 1..(Len(s) - Len(sep) + 1) : SubSeq(s, i, i + Len(sep) - 1) = sep}
    IN  IF at = {} THEN <<s>>
        ELSE <<SubSeq(s, 1, SetMin(at) - 1)>> \o SplitOn(SubSeq(s, SetMin(at) + Len(sep), Len(s)), sep)

P_echo == <<"e", "c", "h", "o", " ", "h", "i">>
P_echoWarn == <<"e", "c", "h", "o", " ", "h", "i", ";", " ", "e", "c", "h", "o", " ", "w", " ", ">", "&", "2">>
P_cat == <<"c", "a", "t">>
P_wc == <<"w", "c", " ", "-", "c">>
P_grep == <<"g", "r", "e", "p", " ", "x">>
P_nope == <<"n", "o", "p", "e">>
P_echoNope == <<"e", "c", "h", "o", " ", "h", "i", ";", " ", "n", "o", "p", "e">>
S_notFound == <<"s", "h", ":", " ", "1", ":", " ", "n", "o", "p", "e", ":", " ", "n", "o", "t", " ", "f", "o", "u", "n", "d", "\n">>

\* sh -c text with the given standard input
Sh(text, stdin) ==
    LET prog == TrimSpace(text)
    IN  CASE prog = <<>> -> [stdout |-> <<>>, stderr |-> <<>>, code |-> 0]
          [] prog = P_echo -> [stdout |-> <<"h", "i", "\n">>, stderr |-> <<>>, code |-> 0]
          [] prog = P_echoWarn -> [stdout |-> <<"h", "i", "\n">>, stderr |-> <<"w", "\n">>, code |-> 0]
          [] prog = P_cat -> [stdout |-> stdin, stderr |-> <<>>, code |-> 0]
          [] prog = P_wc -> [stdout |-> Itoa(Len(stdin)) \o <<"\n">>, stderr |-> <<>>, code |-> 0]
          [] prog = P_grep -> IF Contains(stdin, <<"x">>)
                              THEN [stdout |-> stdin, stderr |-> <<>>, code |-> 0]
                              ELSE [stdout |-> <<>>, stderr |-> <<>>, code |-> 1]
          [] prog = P_echoNope -> [stdout |-> <<"h", "i", "\n">>, stderr |-> S_notFound, code |-> 127]
          [] OTHER -> [stdout |-> <<>>, stderr |-> S_notFound, code |-> 127]

\* the text of an *exec.ExitError
ExitError(code) == <<"e", "x", "i", "t", " ", "s", "t", "a", "t", "u", "s", " ">> \o (IF code >= 100 THEN <<"1">> \o Itoa(code - 100) ELSE Itoa(code))

NoErr == [failed |-> FALSE, text |-> <<>>]

\* fmt.Errorf("command failed: %w", err)
CommandFailedError(e) == [failed |-> TRUE, text |-> <<"c", "o", "m", "m", "a", "n", "d", " ", "f", "a", "i", "l", "e", "d", ":", " ">> \o e]

\* an error that counts the stages from zero
PipeStepError_FromZero(i, e) == [failed |-> TRUE, text |-> <<"p", "i", "p", "e", " ", "s", "t", "e", "p", " ">> \o Itoa(i) \o <<" ", "f", "a", "i", "l", "e", "d", ":", " ">> \o e]

\* fmt.Errorf("pipe step %d failed: %w", i+1, err)
PipeStepError(i, e) == [failed |-> TRUE, text |-> <<"p", "i", "p", "e", " ", "s", "t", "e", "p", " ">> \o Itoa(i + 1) \o <<" ", "f", "a", "i", "l", "e", "d", ":", " ">> \o e]

\* only the standard output of the command
CombinedOutput_StdoutOnly(r) == r.stdout

\* cmd.CombinedOutput(): standard output and standard error in one buffer (the
\* programs of the model write their standard output first)
CombinedOutput(r) == r.stdout \o r.stderr

\* what goes to the next stage, standard error included
NextInput_WithStderr(output, stderrOutput) == output \o stderrOutput

\* currentInput = output: only stdout goes to the next command
NextInput(output, stderrOutput) == output

\* cmd.Stdin is set when i > 0 && len(currentInput) > 0; otherwise the stage
\* reads the null device
StageInput(i, currentInput) == IF i > 0 /\ Len(currentInput) > 0 THEN currentInput ELSE <<>>

\* the loop of executePipedCommand from index i (zero-based, as in the code);
\* trace lists the stages run, with what each read and wrote
RECURSIVE pipeLoop(_, _, _, _, _)
pipeLoop(parts, i, currentInput, details, trace) ==
    IF i >= Len(parts)
    THEN [output |-> currentInput, err |-> NoErr, trace |-> trace]
    ELSE LET part == TrimSpace(parts[i + 1])
             stdin == StageInput(i, currentInput)
             r == Sh(part, stdin)
             t == Append(trace, [index |-> i + 1, part |-> part, stdin |-> stdin,
                                 stdout |-> r.stdout, stderr |-> r.stderr, failed |-> r.code # 0])
         IN  IF part = <<>> THEN pipeLoop(parts, i + 1, currentInput, details, trace)
             ELSE IF r.code # 0
             THEN IF i > 0
                  THEN [output |-> details \o <<"S", "t", "e", "p", "s", " ", "1", "-">> \o Itoa(i) \o <<" ", "s", "u", "c", "c", "e", "e", "d", "e", "d", ".", " ">>
                                   \o <<"S", "t", "e", "p", " ">> \o Itoa(i + 1) \o <<" ", "f", "a", "i", "l", "e", "d", ":", " ">> \o part
                                   \o (IF r.stderr # <<>> THEN <<" ", "(", "s", "t", "d", "e", "r", "r", ":", " ">> \o r.stderr \o <<")">> ELSE <<>>)
                                   \o (IF Len(currentInput) > 0
                                       THEN <<"\n", "I", "n", "t", "e", "r", "m", "e", "d", "i", "a", "t", "e", " ", "o", "u", "t", "p", "u", "t", " ", "f", "r", "o", "m", " ", "p", "r", "e", "v", "i", "o", "u", "s", " ", "s", "t", "e", "p", "s", ":", "\n">> \o currentInput
                                       ELSE <<>>),
                        err |-> PipeStepError(i, ExitError(r.code)), trace |-> t]
                  ELSE [output |-> r.stdout \o (IF r.stderr # <<>> THEN <<"\n", "s", "t", "d", "e", "r", "r", ":", " ">> \o r.stderr ELSE <<>>),
                        err |-> CommandFailedError(ExitError(r.code)), trace |-> t]
             ELSE IF i < Len(parts) - 1
             THEN pipeLoop(parts, i + 1, NextInput(r.stdout, r.stderr),
                           details \o <<"S", "t", "e", "p", " ">> \o Itoa(i + 1) \o <<" ", "(">> \o part \o <<")", ":", " ">>
                                   \o Itoa(Len(r.stdout)) \o <<" ", "b", "y", "t", "e", "s", " ", "o", "f", " ", "o", "u", "t", "p", "u", "t", "\n">>, t)
             ELSE [output |-> r.stdout \o (IF r.stderr # <<>> THEN <<"\n", "s", "t", "d", "e", "r", "r", ":", " ">> \o r.stderr ELSE <<>>),
                   err |-> NoErr, trace |-> t]

\* a command run as a whole by sh -c
executeSimple(cmdStr) ==
    LET r == Sh(cmdStr, <<>>)
        t == <<[index |-> 1, part |-> cmdStr, stdin |-> <<>>,
                stdout |-> r.stdout, stderr |-> r.stderr, failed |-> r.code # 0]>>
    IN  IF r.code # 0
        THEN [output |-> CombinedOutput(r), err |-> CommandFailedError(ExitError(r.code)), trace |-> t]
        ELSE [output |-> CombinedOutput(r), err |-> NoErr, trace |-> t]

executePipedCommand(cmdStr) ==
    LET parts == SplitOn(cmdStr, S_Bar)
    IN  IF Len(parts) < 2 THEN executeSimple(cmdStr)
        ELSE pipeLoop(parts, 0, <<>>, <<>>, <<>>)

Execute(cmdStr) ==
    IF Contains(cmdStr, S_Bar) THEN executePipedCommand(cmdStr) ELSE executeSimple(cmdStr)

\* the stage texts of the harness, two of them blank
ExecParts == {P_echo, P_echoWarn, P_cat, P_wc, P_grep, P_nope, P_echoNope, <<>>, <<" ">>}

\* commands of one, two and three stages
ExecCommands ==
    ExecParts
    \cup {a \o S_Bar \o b : a \in ExecParts, b \in ExecParts}
    \cup {a \o S_Bar \o b \o S_Bar \o c : a \in ExecParts, b \in ExecParts, c \in ExecParts}

InitExec ==
    /\ ev \in [phase : {"in"}, cmdStr : ExecCommands]
    /\ fe = "Executor"
    /\ AutoApprove = FALSE
    /\ MaxAttempts = 0
    /\ pc = "input"
    /\ originalRequest = <<>>
    /\ commandQueue = <<>>
    /\ executionLog = <<>>
    /\ attempt = 0
    /\ lastErr = FALSE
    /\ pendingCommand = <<>>
    /\ inflight = NoCmd
    /\ ret = NoRet
    /\ hist = HistInit

Exec_Call ==
    /\ fe = "Executor" /\ ev.phase = "in"
    /\ ev' = [phase |-> "out", cmdStr |-> ev.cmdStr, result |-> Execute(ev.cmdStr)]
    /\ UNCHANGED <<fe, AutoApprove, MaxAttempts, pc, originalRequest, commandQueue,
                   executionLog, attempt, lastErr, pendingCommand, inflight, ret, hist>>

SpecExec == InitExec /\ [][Exec_Call]_vars

----------------------------------------------------------------------------
(* The validator and the permission prompt on their own: IsValid,
   ParseCommands and requestPermission applied to one text *)

\* single lines, as the validator sees them
TextLines ==
    { <<>>, <<" ">>, <<"\t">>, <<"l", "s", " ", "-", "l", "a">>, <<" ", " ", "l", "s", " ", "-", "l", "a", " ", " ">>, <<"p", "s", " ", "a", "u", "x", " ", "|", " ", "g", "r", "e", "p", " ", "c", "h", "r", "o", "m", "e">>,
      <<"$", " ", "l", "s", " ", "-", "l", "a">>, <<"#", " ", "t", "h", "i", "s", " ", "i", "s", " ", "a", " ", "c", "o", "m", "m", "e", "n", "t">>, <<">", " ", "o", "u", "t", "p", "u", "t", ".", "t", "x", "t">>, <<" ", "$", " ", "l", "s">>, <<" ", "#", " ", "c">>, <<"l", "s", " ", ">", " ", "f">>, <<"e", "c", "h", "o", " ", "$", "H", "O", "M", "E">>,
      <<"d", "r", "w", "x", "r", "-", "x", "r", "-", "x", " ", "5", " ", "u", "s", "e", "r", " ", "g", "r", "o", "u", "p", " ", "1", "6", "0", " ", "J", "a", "n", " ", "1", " ", "1", "2", ":", "0", "0", " ", "f", "o", "l", "d", "e", "r">>, <<"t", "o", "t", "a", "l", " ", "6", "4">>, <<"s", "u", "b", "t", "o", "t", "a", "l", " ", "5">>, <<"t", "o", "t", "a", "l">>,
      <<"4", "2">>, <<" ", "4", "2", " ">>, <<"-", "7">>, <<"+", "5">>, <<"0", "0", "7">>, <<"4", " ", "2">>, <<"4", "2", "a">>, <<"4", ".", "2">>, <<"-">>, <<"0", "x", "1", "F">>,
      <<"9", "2", "2", "3", "3", "7", "2", "0", "3", "6", "8", "5", "4", "7", "7", "5", "8", "0", "7">>, <<"9", "2", "2", "3", "3", "7", "2", "0", "3", "6", "8", "5", "4", "7", "7", "5", "8", "0", "8">>, <<"-", "9", "2", "2", "3", "3", "7", "2", "0", "3", "6", "8", "5", "4", "7", "7", "5", "8", "0", "8">>, <<"-", "9", "2", "2", "3", "3", "7", "2", "0", "3", "6", "8", "5", "4", "7", "7", "5", "8", "0", "9">>,
      <<"0", "0", "0", "0", "0", "0", "0", "0", "0", "0", "0", "0", "0", "0", "0", "0", "0", "0", "0", "0", "0", "0", "1">>, <<"9", "9", "9", "9", "9", "9", "9", "9", "9", "9", "9", "9", "9", "9", "9", "9", "9", "9", "9", "9">>,
      <<"E", "r", "r", "o", "r", ":", " ", "c", "o", "m", "m", "a", "n", "d", " ", "n", "o", "t", " ", "f", "o", "u", "n", "d">>, <<"b", "a", "s", "h", ":", " ", "f", "o", "o", ":", " ", "c", "o", "m", "m", "a", "n", "d", " ", "n", "o", "t", " ", "f", "o", "u", "n", "d">>, <<"e", "r", "r", "o", "r", ":", " ", "x">>, <<"e", "c", "h", "o", " ", "E", "r", "r", "o", "r", ":">>, <<"C", "o", "m", "m", "a", "n", "d", " ", "N", "o", "t", " ", "F", "o", "u", "n", "d">>,
      <<"f", "i", "n", "d", " ", "/", "p", " ", "-", "n", "a", "m", "e", " ", "'", "*", ".", "g", "o", "'", " ", "-", "e", "x", "e", "c", " ", "g", "r", "e", "p", " ", "-", "l", " ", "'", "p", "a", "c", "k", "a", "g", "e", "'", " ", "{", "}", " ", "\\", ";">> }

\* responses of several lines
TextResponses ==
    { <<"l", "s", "\n", "g", "r", "e", "p", " ", "s", "o", "m", "e", "t", "h", "i", "n", "g">>, <<"l", "s", "\n">>, <<"\n", "l", "s">>, <<"\n">>, <<" ", "\n", " ", "\n">>,
      <<"l", "s", " ", "-", "l", "a", "\n", "g", "r", "e", "p", " ", "s", "o", "m", "e", "t", "h", "i", "n", "g", " ", "f", "i", "l", "e", ".", "t", "x", "t", "\n", "e", "c", "h", "o", " ", "\"", "h", "e", "l", "l", "o", " ", "w", "o", "r", "l", "d", "\"">>,
      <<"l", "s", " ", "-", "l", "a", "\n", "$", " ", "i", "n", "v", "a", "l", "i", "d", " ", "s", "h", "e", "l", "l", " ", "p", "r", "o", "m", "p", "t", "\n", "g", "r", "e", "p", " ", "s", "o", "m", "e", "t", "h", "i", "n", "g", " ", "f", "i", "l", "e", ".", "t", "x", "t", "\n", "4", "2", "\n", "e", "c", "h", "o", " ", "\"", "h", "e", "l", "l", "o", " ", "w", "o", "r", "l", "d", "\"", "\n", "E", "r", "r", "o", "r", ":", " ", "s", "o", "m", "e", " ", "e", "r", "r", "o", "r">>,
      <<"$", " ", "s", "h", "e", "l", "l", " ", "p", "r", "o", "m", "p", "t", "\n", "#", " ", "c", "o", "m", "m", "e", "n", "t", "\n", "4", "2", "\n", "E", "r", "r", "o", "r", ":", " ", "f", "a", "i", "l", "e", "d">>,
      <<" ", " ", " ", "l", "s", " ", "-", "l", "a", " ", " ", " ", "\n", "\t", "\t", "\t", "\n", " ", " ", " ", "g", "r", "e", "p", " ", "s", "o", "m", "e", "t", "h", "i", "n", "g", " ", " ", " ", "\n", "\t", "\t", "\t">>,
      <<"p", "w", "d", "\n", "l", "s", "\n", "p", "w", "d", "\n", "l", "s", "\n", "p", "w", "d">>, <<"b", "\n", "a", "\n", "b">>, <<" ", "#", " ", "c", "\n", " ", "$", " ", "x", "\n", " ", ">", " ", "y">>, <<"l", "s", "\r", "\n", "p", "w", "d", "\r", "\n">>, <<"t", "o", "t", "a", "l", " ", "8", "\n", "d", "r", "w", "x", "r", "-", "x", "r", "-", "x", " ", "2", " ", "u", " ", "g", "\n", "l", "s">> }

\* lines typed at the permission prompt
TextAnswers ==
    { <<"\n">>, <<"y", "\n">>, <<"Y", "\n">>, <<"y", "e", "s", "\n">>, <<"Y", "E", "S", "\n">>, <<"Y", "e", "s", "\n">>, <<"y", "E", "s", "\n">>, <<" ", " ", "y", " ", " ", "\n">>, <<"\t", "Y", "E", "S", " ", "\n">>, <<"y">>,
      <<"n", "\n">>, <<"N", "\n">>, <<"n", "o", "\n">>, <<"N", "O", "\n">>, <<"N", "o", "\n">>, <<"n", "O", "\n">>, <<" ", "n", " ", "\n">>, <<" ", "N", "O", "\t", "\n">>, <<"n">>,
      <<"y", "y", "\n">>, <<"y", "e", "\n">>, <<"y", "e", "s", " ", "p", "l", "e", "a", "s", "e", "\n">>, <<"o", "k", "\n">>, <<"n", "o", "p", "e", "\n">>, <<"y", " ", "e", " ", "s", "\n">>, <<"q", "\n">>, <<"\r", "\n">>, <<"y", "\r", "\n">> }

Texts == TextLines \cup TextResponses \cup TextAnswers

InitText ==
    /\ ev \in [phase : {"in"}, text : Texts]
    /\ fe = "Text"
    /\ AutoApprove = FALSE
    /\ MaxAttempts = 0
    /\ pc = "input"
    /\ originalRequest = <<>>
    /\ commandQueue = <<>>
    /\ executionLog = <<>>
    /\ attempt = 0
    /\ lastErr = FALSE
    /\ pendingCommand = <<>>
    /\ inflight = NoCmd
    /\ ret = NoRet
    /\ hist = HistInit

TextUnchanged ==
    UNCHANGED <<fe, AutoApprove, MaxAttempts, pc, originalRequest, commandQueue,
                executionLog, attempt, lastErr, pendingCommand, inflight, ret, hist>>

Text_IsValid ==
    /\ fe = "Text" /\ ev.phase = "in"
    /\ ev' = [phase |-> "out", fn |-> "IsValid", text |-> ev.text, result |-> IsValid(ev.text)]
    /\ TextUnchanged

Text_ParseCommands ==
    /\ fe = "Text" /\ ev.phase = "in"
    /\ ev' = [phase |-> "out", fn |-> "ParseCommands", text |-> ev.text, result |-> ParseCommands(ev.text)]
    /\ TextUnchanged

Text_requestPermission ==
    /\ fe = "Text" /\ ev.phase = "in"
    /\ ev' = [phase |-> "out", fn |-> "requestPermission", text |-> ev.text, result |-> requestPermission(ev.text)]
    /\ TextUnchanged

TextNext == Text_IsValid \/ Text_ParseCommands \/ Text_requestPermission

SpecText == InitText /\ [][TextNext]_vars

----------------------------------------------------------------------------
(* The change detector: AutoIndexer over a directory tree.  ev holds the
   indexer (config, lastSnapshot), the tree it walks, the auto-index
   collection of the vector store, and what the last call returned *)

\* filesystem mutations allowed in one behaviour
MaxFsOps == 2

\* every relative path of the tree, in the order filepath.Walk visits them
TreePaths == << <<"A", ".", "G", "O">>, <<"R", "E", "A", "D", "M", "E">>, <<"a", ".", "g", "o">>, <<"n", "o", "t", "e", "s", ".", "l", "o", "g">>, <<"t", "m", "p", "/", "x", ".", "g", "o">> >>

PathSet == {TreePaths[i] : i \in 1..Len(TreePaths)}

\* file contents of 1 and 2 bytes
Contents == { <<"x">>, <<"y", "y">> }

NoFile == [exists |-> FALSE]

\* AutoIndexConfig as loaded; the size limit is one byte, or none
CfgExtensions == << <<".", "g", "o">>, <<".", "m", "d">> >>
CfgMaxFileSize == 1
CfgExcludePatterns == << <<"t", "m", "p", "/", "*">>, <<"*", ".", "l", "o", "g">> >>

\* filepath.Match for patterns of literals, * and ?
RECURSIVE Match(_, _)
Match(pattern, name) ==
    IF pattern = <<>> THEN name = <<>>
    ELSE IF pattern[1] = "*"
         THEN \E k \in 0..Len(name) :
                  /\ \A i \in 1..k : name[i] # "/"
                  /\ Match(Tail(pattern), SubSeq(name, k + 1, Len(name)))
         ELSE /\ name # <<>>
              /\ IF pattern[1] = "?" THEN name[1] # "/" ELSE name[1] = pattern[1]
              /\ Match(Tail(pattern), Tail(name))

TrimSuffix(s, suffix) ==
    IF Len(s) >= Len(suffix) /\ SubSeq(s, Len(s) - Len(suffix) + 1, Len(s)) = suffix
    THEN SubSeq(s, 1, Len(s) - Len(suffix))
    ELSE s

\* filepath.Ext: from the last dot of the last path element
Ext(path) ==
    LET dots == {i \in 1..Len(path) : path[i] = "." /\ \A j \in i..Len(path) : path[j] # "/"}
    IN  IF dots = {} THEN <<>> ELSE SubSeq(path, SetMax(dots), Len(path))

\* os.Stat(...).Size() of a file of the tree
Size(file) == Len(file.content)

shouldTrackFile(cfg, fs, relPath) ==
    /\ cfg.Enabled
    /\ ~(cfg.MaxFileSize > 0 /\ fs[relPath].exists /\ Size(fs[relPath]) > cfg.MaxFileSize)
    /\ \A i \in 1..Len(cfg.ExcludePatterns) :
           /\ ~Match(cfg.ExcludePatterns[i], relPath)
           /\ ~Contains(relPath, TrimSuffix(cfg.ExcludePatterns[i], <<"/", "*">>))
    /\ \/ Len(cfg.Extensions) = 0
       \/ \E i \in 1..Len(cfg.Extensions) : ToLower(Ext(relPath)) = ToLower(cfg.Extensions[i])

\* calculateFileHash: SHA-256 of the content, which tells the contents apart
calculateFileHash(file) == [sha256 |-> file.content]

FileInfoOf(relPath, file) ==
    [Path |-> relPath, Size |-> Size(file), ModTime |-> file.modTime, Hash |-> calculateFileHash(file)]

\* the map one walk of the tree builds
WalkSnapshot(cfg, fs) ==
    [relPath \in {p \in PathSet : fs[p].exists /\ shouldTrackFile(cfg, fs, p)} |-> FileInfoOf(relPath, fs[relPath])]

TakeSnapshot_KeepOld(cfg, fs, lastSnapshot) == lastSnapshot

\* lastSnapshot after TakeSnapshot: the walk never returns an error, so the
\* new map always replaces the old one
TakeSnapshot(cfg, fs, lastSnapshot) == WalkSnapshot(cfg, fs)

IsChanged_ByModTime(lastSnapshot, currentFile) ==
    \/ currentFile.Path \notin DOMAIN lastSnapshot
    \/ lastSnapshot[currentFile.Path].Hash # currentFile.Hash
    \/ lastSnapshot[currentFile.Path].ModTime # currentFile.ModTime

\* new file, or modified file
IsChanged(lastSnapshot, currentFile) ==
    \/ currentFile.Path \notin DOMAIN lastSnapshot
    \/ lastSnapshot[currentFile.Path].Hash # currentFile.Hash

\* changedFiles of DetectChanges, in walk order
DetectChanges(cfg, fs, lastSnapshot) ==
    LET currentSnapshot == WalkSnapshot(cfg, fs)
    IN  SelectSeq(TreePaths, LAMBDA relPath :
            /\ relPath \in DOMAIN currentSnapshot
            /\ IsChanged(lastSnapshot, currentSnapshot[relPath]))

SnapshotAfterDetect_Absorb(lastSnapshot, currentSnapshot) == currentSnapshot

\* lastSnapshot after DetectChanges: the walk fills a local map only
SnapshotAfterDetect(lastSnapshot, currentSnapshot) == lastSnapshot

SeqSet(s) == {s[i] : i \in 1..Len(s)}

\* documents IndexChangedFiles adds, given the files whose embedding and
\* storing succeed; a file that cannot be read is skipped
IndexedDocs(fs, changedFiles, succeed) ==
    {[path |-> p, content |-> fs[p].content] : p \in {q \in SeqSet(changedFiles) \cap succeed : fs[q].exists}}

\* lastSnapshot after IndexChangedFiles
IndexChangedFiles(cfg, fs, lastSnapshot, changedFiles) ==
    IF Len(changedFiles) = 0 THEN lastSnapshot ELSE TakeSnapshot(cfg, fs, lastSnapshot)

IndexConfigs ==
    [Enabled : BOOLEAN, Extensions : {CfgExtensions}, MaxFileSize : {0, CfgMaxFileSize},
     ExcludePatterns : {CfgExcludePatterns}]

EmptyTree == [p \in PathSet |-> NoFile]

File(content, modTime) == [exists |-> TRUE, content |-> content, modTime |-> modTime]

\* the working directory when the indexer is constructed
InitialTrees ==
    { [EmptyTree EXCEPT ![<<"a", ".", "g", "o">>] = File(<<"x">>, 0), ![<<"n", "o", "t", "e", "s", ".", "l", "o", "g">>] = File(<<"x">>, 0)] }

\* observation of one round trip: a trackable file is written, then reported,
\* then indexed, then the baseline is reset, then the tree is compared again
NoTrip == [stage |-> "none", path |-> <<>>]

InitIndex ==
    /\ ev \in [phase : {"ai"}, op : {"NewAutoIndexer"}, config : IndexConfigs, fs : InitialTrees,
               clock : {0}, lastSnapshot : {<<>>}, docs : {{}},
               detected : {<<>>}, snapshotKept : {TRUE},
               quiet : {FALSE}, repeat : {"first"}, fresh : {FALSE},
               trip : {NoTrip}]
    /\ fe = "AutoIndexer"
    /\ AutoApprove = FALSE
    /\ MaxAttempts = 0
    /\ pc = "input"
    /\ originalRequest = <<>>
    /\ commandQueue = <<>>
    /\ executionLog = <<>>
    /\ attempt = 0
    /\ lastErr = FALSE
    /\ pendingCommand = <<>>
    /\ inflight = NoCmd
    /\ ret = NoRet
    /\ hist = HistInit

IndexUnchanged ==
    UNCHANGED <<fe, AutoApprove, MaxAttempts, pc, originalRequest, commandQueue,
                executionLog, attempt, lastErr, pendingCommand, inflight, ret, hist>>

\* something outside the indexer (a command of the session) writes a file
Index_WriteFile ==
    /\ fe = "AutoIndexer" /\ ev.clock < MaxFsOps
    /\ \E p \in PathSet, c \in Contents :
          LET fs2 == [ev.fs EXCEPT ![p] = File(c, ev.clock + 1)]
          IN  ev' = [ev EXCEPT !.op = "WriteFile", !.fs = fs2, !.clock = ev.clock + 1,
                               !.snapshotKept = TRUE, !.quiet = FALSE, !.repeat = "first", !.fresh = FALSE,
                               !.trip = IF shouldTrackFile(ev.config, fs2, p)
                                        THEN [stage |-> "written", path |-> p]
                                        ELSE NoTrip]
    /\ IndexUnchanged

\* something outside the indexer removes a file
Index_RemoveFile ==
    /\ fe = "AutoIndexer" /\ ev.clock < MaxFsOps
    /\ \E p \in PathSet :
          /\ ev.fs[p].exists
          /\ ev' = [ev EXCEPT !.op = "RemoveFile", !.fs = [ev.fs EXCEPT ![p] = NoFile], !.clock = ev.clock + 1,
                              !.snapshotKept = TRUE, !.quiet = FALSE, !.repeat = "first", !.fresh = FALSE,
                              !.trip = NoTrip]
    /\ IndexUnchanged

Index_TakeSnapshot ==
    /\ fe = "AutoIndexer"
    /\ LET snapshot == TakeSnapshot(ev.config, ev.fs, ev.lastSnapshot)
       IN  ev' = [ev EXCEPT !.op = "TakeSnapshot",
                            !.lastSnapshot = snapshot,
                            !.snapshotKept = (snapshot = ev.lastSnapshot),
                            !.quiet = FALSE, !.repeat = "first", !.fresh = TRUE,
                            !.trip = IF @.stage = "indexed" THEN [@ EXCEPT !.stage = "reset"] ELSE NoTrip]
    /\ IndexUnchanged

Index_DetectChanges ==
    /\ fe = "AutoIndexer"
    /\ LET changedFiles == DetectChanges(ev.config, ev.fs, ev.lastSnapshot)
           snapshot == SnapshotAfterDetect(ev.lastSnapshot, WalkSnapshot(ev.config, ev.fs))
       IN  ev' = [ev EXCEPT !.op = "DetectChanges",
                            !.lastSnapshot = snapshot,
                            !.snapshotKept = (snapshot = ev.lastSnapshot),
                            !.detected = changedFiles,
                            !.repeat = IF ~ev.quiet THEN "first" ELSE IF changedFiles = ev.detected THEN "same" ELSE "differs",
                            !.quiet = TRUE,
                            !.trip = IF @.stage = "written" /\ @.path \in SeqSet(changedFiles)
                                     THEN [@ EXCEPT !.stage = "detected"]
                                     ELSE IF @.stage = "reset" THEN [@ EXCEPT !.stage = "checked"]
                                     ELSE NoTrip]
    /\ IndexUnchanged

\* IndexChangedFiles on what the last DetectChanges returned; the embedding
\* service and the vector store may fail for any of the files
Index_IndexChangedFiles ==
    /\ fe = "AutoIndexer"
    /\ \E succeed \in SUBSET SeqSet(ev.detected) :
          LET snapshot == IndexChangedFiles(ev.config, ev.fs, ev.lastSnapshot, ev.detected)
          IN  ev' = [ev EXCEPT !.op = "IndexChangedFiles",
                               !.docs = @ \cup IndexedDocs(ev.fs, ev.detected, succeed),
                               !.lastSnapshot = snapshot,
                               !.snapshotKept = (snapshot = ev.lastSnapshot),
                               !.quiet = IF Len(ev.detected) = 0 THEN @ ELSE FALSE,
                               !.repeat = "first",
                               !.fresh = IF Len(ev.detected) = 0 THEN @ ELSE TRUE,
                               !.trip = IF @.stage = "detected" /\ @.path \in SeqSet(ev.detected)
                                        THEN [@ EXCEPT !.stage = "indexed"]
                                        ELSE NoTrip]
    /\ IndexUnchanged

IndexNext ==
    \/ Index_WriteFile
    \/ Index_RemoveFile
    \/ Index_TakeSnapshot
    \/ Index_DetectChanges
    \/ Index_IndexChangedFiles

SpecIndex == InitIndex /\ [][IndexNext]_vars

----------------------------------------------------------------------------
(* The snapshot lock: several tasks call TakeSnapshot and DetectChanges on one
   AutoIndexer at once.  A call takes the mutex, walks the tree file by file,
   and releases the mutex when it returns *)

\* calls one task makes
MaxCalls == 1

Tasks == {"t1", "t2", "t3"}

\* sync.RWMutex: Lock waits until nobody holds the mutex
CanLock_IgnoreReaders(mutex) == mutex.writers = {}

CanLock(mutex) == mutex.writers = {} /\ mutex.readers = {}

\* sync.RWMutex: RLock waits only for a writer
CanRLock(mutex) == mutex.writers = {}

MapPut(m, k, v) == [q \in DOMAIN m \cup {k} |-> IF q = k THEN v ELSE m[q]]

\* the walk visits the files that exist, in order: the first one at or after position i
NextFile(fs, i) ==
    LET later == {j \in i..Len(TreePaths) : fs[TreePaths[j]].exists}
    IN  IF later = {} THEN Len(TreePaths) + 1 ELSE SetMin(later)

\* a call that has taken the mutex and starts its walk
StartWalk(op, fs, calls) ==
    [pc |-> IF NextFile(fs, 1) > Len(TreePaths) THEN "walked" ELSE "walk", op |-> op, i |-> NextFile(fs, 1),
     snapshot |-> <<>>, changedFiles |-> <<>>, seen |-> {}, calls |-> calls + 1]

IdleTask == [pc |-> "idle", op |-> "none", i |-> 0, snapshot |-> <<>>, changedFiles |-> <<>>, seen |-> {}, calls |-> 0]

LockConfig == [Enabled |-> TRUE, Extensions |-> CfgExtensions, MaxFileSize |-> 0, ExcludePatterns |-> CfgExcludePatterns]

InitLock ==
    /\ ev \in [phase : {"lock"}, config : {LockConfig}, fs : InitialTrees, clock : {0},
               lastSnapshot : {<<>>}, version : {0},
               mutex : {[readers |-> {}, writers |-> {}]},
               tasks : {[t \in Tasks |-> IdleTask]}]
    /\ fe = "SnapshotLock"
    /\ AutoApprove = FALSE
    /\ MaxAttempts = 0
    /\ pc = "input"
    /\ originalRequest = <<>>
    /\ commandQueue = <<>>
    /\ executionLog = <<>>
    /\ attempt = 0
    /\ lastErr = FALSE
    /\ pendingCommand = <<>>
    /\ inflight = NoCmd
    /\ ret = NoRet
    /\ hist = HistInit

\* ai.mutex.Lock() at the head of TakeSnapshot
Lock_TakeSnapshot ==
    /\ fe = "SnapshotLock"
    /\ \E t \in Tasks :
          /\ ev.tasks[t].pc = "idle" /\ ev.tasks[t].calls < MaxCalls
          /\ CanLock(ev.mutex)
          /\ ev' = [ev EXCEPT !.mutex.writers = @ \cup {t},
                              !.tasks[t] = StartWalk("TakeSnapshot", ev.fs, ev.tasks[t].calls)]
    /\ IndexUnchanged

\* ai.mutex.RLock() at the head of DetectChanges
Lock_DetectChanges ==
    /\ fe = "SnapshotLock"
    /\ \E t \in Tasks :
          /\ ev.tasks[t].pc = "idle" /\ ev.tasks[t].calls < MaxCalls
          /\ CanRLock(ev.mutex)
          /\ ev' = [ev EXCEPT !.mutex.readers = @ \cup {t},
                              !.tasks[t] = StartWalk("DetectChanges", ev.fs, ev.tasks[t].calls)]
    /\ IndexUnchanged

\* the task's record after the walk callback has run on one more path
WalkedOne(task, cfg, fs, lastSnapshot, version) ==
    LET relPath == TreePaths[task.i]
        tracked == fs[relPath].exists /\ shouldTrackFile(cfg, fs, relPath)
        currentFile == FileInfoOf(relPath, fs[relPath])
        moved == [task EXCEPT !.i = NextFile(fs, task.i + 1),
                                 !.pc = IF NextFile(fs, task.i + 1) > Len(TreePaths) THEN "walked" ELSE "walk"]
    IN  IF ~tracked THEN moved
        ELSE IF task.op = "TakeSnapshot"
             THEN [moved EXCEPT !.snapshot = MapPut(@, relPath, currentFile)]
             ELSE [moved EXCEPT !.snapshot = MapPut(@, relPath, currentFile),
                                !.seen = @ \cup {version},
                                !.changedFiles = IF IsChanged(lastSnapshot, currentFile)
                                                 THEN Append(@, relPath) ELSE @]

\* one call of the walk callback
Lock_WalkStep ==
    /\ fe = "SnapshotLock"
    /\ \E t \in Tasks :
          /\ ev.tasks[t].pc = "walk"
          /\ ev' = [ev EXCEPT !.tasks[t] = WalkedOne(@, ev.config, ev.fs, ev.lastSnapshot, ev.version)]
    /\ IndexUnchanged

\* ai.lastSnapshot = snapshot
Lock_Assign ==
    /\ fe = "SnapshotLock"
    /\ \E t \in Tasks :
          /\ ev.tasks[t].pc = "walked" /\ ev.tasks[t].op = "TakeSnapshot"
          /\ ev' = [ev EXCEPT !.lastSnapshot = ev.tasks[t].snapshot,
                              !.version = @ + 1,
                              !.tasks[t].pc = "assigned"]
    /\ IndexUnchanged

\* the deferred Unlock / RUnlock when the call returns
Lock_Return ==
    /\ fe = "SnapshotLock"
    /\ \E t \in Tasks :
          /\ \/ ev.tasks[t].pc = "assigned"
             \/ ev.tasks[t].pc = "walked" /\ ev.tasks[t].op = "DetectChanges"
          /\ ev' = [ev EXCEPT !.mutex.readers = @ \ {t},
                              !.mutex.writers = @ \ {t},
                              !.tasks[t] = [IdleTask EXCEPT !.calls = ev.tasks[t].calls]]
    /\ IndexUnchanged

\* a command of the session writes a file while the calls run
Lock_WriteFile ==
    /\ fe = "SnapshotLock" /\ ev.clock < MaxCalls
    /\ \E p \in PathSet, c \in Contents :
          ev' = [ev EXCEPT !.fs[p] = File(c, ev.clock + 1), !.clock = @ + 1]
    /\ IndexUnchanged

LockNext ==
    \/ Lock_TakeSnapshot
    \/ Lock_DetectChanges
    \/ Lock_WalkStep
    \/ Lock_Assign
    \/ Lock_Return
    \/ Lock_WriteFile

SpecLock == InitLock /\ [][LockNext]_vars

----------------------------------------------------------------------------
(* Auto-indexing during a session: every successful command starts a detached
   task that calls DetectChanges and, when something changed,
   IndexChangedFiles; the session goes on with its next command meanwhile.
   DetectChanges and TakeSnapshot are atomic here, which the mutex grants *)

\* the k-th successful command starts task k
TaskIds == 1..MaxFsOps

NotStarted == [pc |-> "none", changedFiles |-> <<>>]

\* contents of the tracked files, by path
ContentsOf(cfg, fs) ==
    [p \in {q \in PathSet : fs[q].exists /\ shouldTrackFile(cfg, fs, q)} |-> fs[p].content]

\* cmd/chat.go takes the first snapshot before the session starts
InitTasks ==
    /\ ev \in [phase : {"tasks"}, config : {LockConfig}, fs : InitialTrees, clock : {0},
               lastSnapshot : {WalkSnapshot(LockConfig, tree) : tree \in InitialTrees},
               docs : {{}},
               tasks : {[k \in TaskIds |-> NotStarted]},
               settled : {ContentsOf(LockConfig, tree) : tree \in InitialTrees},
               absorbed : {{}}, stored : {{}}, twice : {{}}]
    /\ fe = "AutoIndexTasks"
    /\ AutoApprove = FALSE
    /\ MaxAttempts = 0
    /\ pc = "input"
    /\ originalRequest = <<>>
    /\ commandQueue = <<>>
    /\ executionLog = <<>>
    /\ attempt = 0
    /\ lastErr = FALSE
    /\ pendingCommand = <<>>
    /\ inflight = NoCmd
    /\ ret = NoRet
    /\ hist = HistInit

\* the tree after a command: it wrote one file, or none
TreesAfterCommand(fs, now) ==
    {fs} \cup {[fs EXCEPT ![p] = File(c, now)] : p \in PathSet, c \in Contents}

\* Execute returns without error; the go statement starts the task
Tasks_CommandSucceeds ==
    /\ fe = "AutoIndexTasks" /\ ev.clock < MaxFsOps
    /\ \E fs2 \in TreesAfterCommand(ev.fs, ev.clock + 1) :
          ev' = [ev EXCEPT !.fs = fs2, !.clock = @ + 1,
                           !.tasks[ev.clock + 1] = [pc |-> "detect", changedFiles |-> <<>>]]
    /\ IndexUnchanged

\* the task's DetectChanges; with nothing changed the task ends
Tasks_DetectChanges ==
    /\ fe = "AutoIndexTasks"
    /\ \E k \in TaskIds :
          /\ ev.tasks[k].pc = "detect"
          /\ LET changedFiles == DetectChanges(ev.config, ev.fs, ev.lastSnapshot)
             IN  ev' = [ev EXCEPT !.tasks[k] = [pc |-> IF Len(changedFiles) > 0 THEN "index" ELSE "done",
                                                changedFiles |-> changedFiles]]
    /\ IndexUnchanged

\* settled contents after the files of the list were read for indexing
SettledAfter(settled, fs, changedFiles) ==
    [p \in DOMAIN settled \cup {q \in SeqSet(changedFiles) : fs[q].exists} |->
        IF p \in SeqSet(changedFiles) /\ fs[p].exists THEN fs[p].content ELSE settled[p]]

\* the writes IndexChangedFiles stores a document for: a write is a path and
\* the time of the command that wrote it
StoredChanges(fs, changedFiles, succeed) ==
    {[path |-> p, modTime |-> fs[p].modTime] : p \in {q \in SeqSet(changedFiles) \cap succeed : fs[q].exists}}

\* the loop of IndexChangedFiles: read, embed and store each file of the list
Tasks_IndexFiles ==
    /\ fe = "AutoIndexTasks"
    /\ \E k \in TaskIds :
          /\ ev.tasks[k].pc = "index"
          /\ \E succeed \in SUBSET SeqSet(ev.tasks[k].changedFiles) :
                ev' = [ev EXCEPT !.docs = @ \cup IndexedDocs(ev.fs, ev.tasks[k].changedFiles, succeed),
                                 !.settled = SettledAfter(@, ev.fs, ev.tasks[k].changedFiles),
                                 !.stored = @ \cup StoredChanges(ev.fs, ev.tasks[k].changedFiles, succeed),
                                 !.twice = @ \cup (ev.stored \cap StoredChanges(ev.fs, ev.tasks[k].changedFiles, succeed)),
                                 !.tasks[k].pc = "snapshot"]
    /\ IndexUnchanged

\* files that are in the new baseline with a content that was never passed
\* to IndexChangedFiles
AbsorbedBy(snapshot, settled, fs) ==
    {p \in DOMAIN snapshot : p \notin DOMAIN settled \/ settled[p] # fs[p].content}

\* the TakeSnapshot that ends IndexChangedFiles
Tasks_TakeSnapshot ==
    /\ fe = "AutoIndexTasks"
    /\ \E k \in TaskIds :
          /\ ev.tasks[k].pc = "snapshot"
          /\ LET snapshot == TakeSnapshot(ev.config, ev.fs, ev.lastSnapshot)
             IN  ev' = [ev EXCEPT !.lastSnapshot = snapshot,
                                  !.absorbed = @ \cup AbsorbedBy(snapshot, ev.settled, ev.fs),
                                  !.tasks[k].pc = "done"]
    /\ IndexUnchanged

TasksNext ==
    \/ Tasks_CommandSucceeds
    \/ Tasks_DetectChanges
    \/ Tasks_IndexFiles
    \/ Tasks_TakeSnapshot

SpecTasks == InitTasks /\ [][TasksNext]_vars

\* every started task keeps running until it ends
SpecTasksFair ==
    /\ SpecTasks
    /\ WF_vars(Tasks_DetectChanges)
    /\ WF_vars(Tasks_IndexFiles)
    /\ WF_vars(Tasks_TakeSnapshot)

----------------------------------------------------------------------------
(* HandlePrompt up to the language-model call: the context it retrieves.  The
   embedding service and the vector store are the environment: each search
   returns a list of texts or an error *)

Found(items) == [err |-> FALSE, items |-> items]
SearchFailed == [err |-> TRUE, items |-> <<>>]

DocumentResults == { SearchFailed, Found(<<>>), Found(<<"doc1">>), Found(<<"doc1", "doc2">>) }
HistoryResults == { SearchFailed, Found(<<>>), Found(<<"session1">>), Found(<<"session1", "session2">>) }

GetCombinedContext_FailOnHistory(documentContext, historicalContext, includeHistory) ==
    IF documentContext.err \/ (includeHistory /\ historicalContext.err) THEN SearchFailed
    ELSE IF includeHistory THEN Found(documentContext.items \o historicalContext.items)
    ELSE Found(documentContext.items)

\* GetCombinedContext, given what GetDocumentContext and GetHistoricalContext return
GetCombinedContext(documentContext, historicalContext, includeHistory) ==
    IF documentContext.err THEN SearchFailed
    ELSE IF includeHistory
         THEN IF historicalContext.err
              THEN Found(documentContext.items)
              ELSE Found(documentContext.items \o historicalContext.items)
         ELSE Found(documentContext.items)

\* HandlePrompt down to GenerateResponse: the context it passes, the warning
\* it prints, and the error it returns when the model fails
HandlePromptContext(documentContext, historicalContext, NoHistory, llmFails) ==
    LET combined == GetCombinedContext(documentContext, historicalContext, ~NoHistory)
    IN  [llmCalled |-> TRUE,
         context |-> IF combined.err THEN <<>> ELSE combined.items,
         warned |-> combined.err,
         err |-> llmFails]

InitContext ==
    /\ ev \in [phase : {"in"}, documents : DocumentResults, history : HistoryResults,
               NoHistory : BOOLEAN, llmFails : BOOLEAN]
    /\ fe = "Context"
    /\ AutoApprove = FALSE
    /\ MaxAttempts = 0
    /\ pc = "input"
    /\ originalRequest = <<>>
    /\ commandQueue = <<>>
    /\ executionLog = <<>>
    /\ attempt = 0
    /\ lastErr = FALSE
    /\ pendingCommand = <<>>
    /\ inflight = NoCmd
    /\ ret = NoRet
    /\ hist = HistInit

Context_HandlePrompt ==
    /\ fe = "Context" /\ ev.phase = "in"
    /\ ev' = [phase |-> "out", documents |-> ev.documents, history |-> ev.history,
              NoHistory |-> ev.NoHistory, llmFails |-> ev.llmFails,
              result |-> HandlePromptContext(ev.documents, ev.history, ev.NoHistory, ev.llmFails)]
    /\ IndexUnchanged

SpecContext == InitContext /\ [][Context_HandlePrompt]_vars

(* The two blocking loops side by side: Session.executeCommandsIteratively and
   SimpleSession.executeCommandsIteratively are given the same initial
   commands and, call by call, the same answers of the user, the Executor
   and the language model.  Each loop is a state record [pc, commandQueue,
   executionLog, attempt, lastErr, calls]; calls are the calls the loop made
   in its latest step. *)

PromptCall(cmd) == [kind |-> "prompt", command |-> cmd]
ExecuteCall(cmd) == [kind |-> "execute", command |-> cmd]
EvaluateCall(log, remaining, hadError) ==
    [kind |-> "evaluate", log |-> log, remaining |-> remaining, hadError |-> hadError]

\* a SimpleSession loop that stops one attempt early
Simple_LoopTest_Early(a, queue) == a < EffectiveMaxAttempts /\ Len(queue) > 0

\* for s.currentAttempt <= maxAttempts && len(s.commandQueue) > 0
Simple_LoopTest(a, queue) == a <= EffectiveMaxAttempts /\ Len(queue) > 0

\* the locals of Session.executeCommandsIteratively at the first loop test
Session_Start(initialCommands) ==
    [pc |-> IF Session_LoopTest(1, initialCommands) THEN "drain" ELSE "done",
     commandQueue |-> initialCommands, executionLog |-> <<>>, attempt |-> 1,
     lastErr |-> FALSE, calls |-> <<>>]

\* the fields of the SimpleSession at its first loop test
Simple_Start(initialCommands) ==
    [pc |-> IF Simple_LoopTest(1, initialCommands) THEN "drain" ELSE "done",
     commandQueue |-> initialCommands, executionLog |-> <<>>, attempt |-> 1,
     lastErr |-> FALSE, calls |-> <<>>]

\* one iteration of the Session's inner loop: the user typed line if asked, and
\* Execute returned o if called
Session_Iteration(m, line, o) ==
    LET cmdStr == Head(m.commandQueue)
        rest == Tail(m.commandQueue)
        prompts == IF AskFirst THEN <<PromptCall(cmdStr)>> ELSE <<>>
    IN  IF AskFirst /\ ~requestPermission(line)
        THEN [m EXCEPT !.pc = "done", !.commandQueue = rest, !.calls = prompts]
        ELSE IF o.failed
        THEN [m EXCEPT !.commandQueue = rest,
                       !.executionLog = @ \o FormatFailure(cmdStr, o.output, S_CommandFailed),
                       !.lastErr = TRUE,
                       !.pc = Session_AfterFailure(rest),
                       !.calls = Append(prompts, ExecuteCall(cmdStr))]
        ELSE [m EXCEPT !.commandQueue = rest,
                       !.executionLog = @ \o FormatSuccess(cmdStr, o.output),
                       !.lastErr = FALSE,
                       !.pc = IF rest = <<>> THEN "evaluate" ELSE "drain",
                       !.calls = Append(prompts, ExecuteCall(cmdStr))]

\* one iteration of the SimpleSession's inner loop
Simple_Iteration(m, line, o) ==
    LET command == Head(m.commandQueue)
        rest == Tail(m.commandQueue)
        prompts == IF AskFirst THEN <<PromptCall(command)>> ELSE <<>>
    IN  IF AskFirst /\ ~requestPermission(line)
        THEN [m EXCEPT !.pc = "done", !.commandQueue = rest, !.calls = prompts]
        ELSE IF o.failed
        THEN [m EXCEPT !.commandQueue = rest,
                       !.executionLog = @ \o FormatFailure(command, o.output, S_CommandFailed),
                       !.lastErr = TRUE,
                       !.pc = "evaluate",
                       !.calls = Append(prompts, ExecuteCall(command))]
        ELSE [m EXCEPT !.commandQueue = rest,
                       !.executionLog = @ \o FormatSuccess(command, o.output),
                       !.lastErr = FALSE,
                       !.pc = IF rest = <<>> THEN "evaluate" ELSE "drain",
                       !.calls = Append(prompts, ExecuteCall(command))]

\* the Session's evaluation, loop increment and loop test
Session_Evaluation(m, request, goalReply, stepReply) ==
    LET r == EvaluateAndGetNextCommands(m.executionLog, request, m.commandQueue, m.lastErr, goalReply, stepReply)
        call == <<EvaluateCall(m.executionLog, m.commandQueue, m.lastErr)>>
    IN  IF r.err \/ ~r.shouldContinue
        THEN [m EXCEPT !.pc = "done", !.calls = call]
        ELSE [m EXCEPT !.commandQueue = r.commands,
                       !.attempt = @ + 1,
                       !.pc = IF Session_LoopTest(m.attempt + 1, r.commands) THEN "drain" ELSE "done",
                       !.calls = call]

\* the SimpleSession's evaluation, increment, loop test and reset of lastErr
Simple_Evaluation(m, request, goalReply, stepReply) ==
    LET r == EvaluateAndGetNextCommands(m.executionLog, request, m.commandQueue, m.lastErr, goalReply, stepReply)
        call == <<EvaluateCall(m.executionLog, m.commandQueue, m.lastErr)>>
        again == Simple_LoopTest(m.attempt + 1, r.commands)
    IN  IF r.err \/ ~r.shouldContinue
        THEN [m EXCEPT !.pc = "done", !.calls = call]
        ELSE [m EXCEPT !.commandQueue = r.commands,
                       !.attempt = @ + 1,
                       !.lastErr = IF again THEN FALSE ELSE @,
                       !.pc = IF again THEN "drain" ELSE "done",
                       !.calls = call]

\* command lists a reply to the request can start the loops with
InitialCommandLists == {ParseCommands(reply.text) : reply \in {r \in InitialReplies : ~r.err}} \ {<<>>}

InitPair ==
    /\ AutoApprove \in BOOLEAN
    /\ MaxAttempts \in 0..MaxCfgAttempts
    /\ \E request \in Requests, initialCommands \in InitialCommandLists :
          ev = [phase |-> "pair", request |-> request,
                session |-> Session_Start(initialCommands),
                simple |-> Simple_Start(initialCommands)]
    /\ fe = "LoopPair"
    /\ pc = "input"
    /\ originalRequest = <<>>
    /\ commandQueue = <<>>
    /\ executionLog = <<>>
    /\ attempt = 0
    /\ lastErr = FALSE
    /\ pendingCommand = <<>>
    /\ inflight = NoCmd
    /\ ret = NoRet
    /\ hist = HistInit

\* both loops are at the head of an inner-loop iteration and get the same
\* line from the user and the same result from the Executor
Pair_Iteration ==
    /\ fe = "LoopPair"
    /\ ev.session.pc = "drain" /\ ev.simple.pc = "drain"
    /\ \E line \in UserLines, o \in ExecOutcomes :
          ev' = [ev EXCEPT !.session = Session_Iteration(@, line, o),
                           !.simple = Simple_Iteration(@, line, o)]
    /\ IndexUnchanged

\* both loops call the Evaluator, whose language model gives both the same replies
Pair_Evaluation ==
    /\ fe = "LoopPair"
    /\ ev.session.pc = "evaluate" /\ ev.simple.pc = "evaluate"
    /\ \E goalReply \in GoalReplies, stepReply \in NextReplies \cup QueueReplies :
          ev' = [ev EXCEPT !.session = Session_Evaluation(@, ev.request, goalReply, stepReply),
                           !.simple = Simple_Evaluation(@, ev.request, goalReply, stepReply)]
    /\ IndexUnchanged

PairNext == Pair_Iteration \/ Pair_Evaluation

SpecPair == InitPair /\ [][PairNext]_vars

-----------------------------------------------------------------------------

(* AIEvaluator.StoreExecutionSession (evaluator.go 219-236): the transcript is
   embedded and added to the commands collection under an identifier made from
   the wall clock in whole seconds.  The clock of the model counts half
   seconds. *)

TicksPerSecond == 2

\* time.Now().Unix()
Unix(clock) == clock \div TicksPerSecond

\* fmt.Sprintf("cmd_session_%d", time.Now().Unix())
SessionID(clock) ==
    <<"c", "m", "d", "_", "s", "e", "s", "s", "i", "o", "n", "_">> \o Itoa(Unix(clock))

\* fmt.Sprintf("Command execution session:\n%s", executionLog)
SessionSummary(log) ==
    <<"C", "o", "m", "m", "a", "n", "d", " ", "e", "x", "e", "c", "u", "t", "i", "o", "n", " ", "s", "e", "s", "s", "i", "o", "n", ":", "\n">> \o log

\* transcripts of finished runs
StoredLogs == { FormatSuccess(<<"l", "s">>, <<>>), FormatSuccess(<<"p", "w", "d">>, <<"/", "\n">>) }

InitStore ==
    /\ ev = [phase |-> "store", clock |-> 0, calls |-> 0, commands |-> <<>>]
    /\ fe = "Store"
    /\ AutoApprove = FALSE
    /\ MaxAttempts = 0
    /\ pc = "input"
    /\ originalRequest = <<>>
    /\ commandQueue = <<>>
    /\ executionLog = <<>>
    /\ attempt = 0
    /\ lastErr = FALSE
    /\ pendingCommand = <<>>
    /\ inflight = NoCmd
    /\ ret = NoRet
    /\ hist = HistInit

\* time passes between two calls
Store_Tick ==
    /\ fe = "Store" /\ ev.clock < MaxExecs * TicksPerSecond
    /\ ev' = [ev EXCEPT !.clock = @ + 1]
    /\ IndexUnchanged

\* one call; the embedding service and the vector store may each fail
Store_StoreExecutionSession ==
    /\ fe = "Store" /\ ev.calls < MaxExecs
    /\ \E log \in StoredLogs, embedded \in BOOLEAN, added \in BOOLEAN :
          ev' = [ev EXCEPT !.calls = @ + 1,
                           !.commands = IF embedded /\ added
                                        THEN Append(@, [id |-> SessionID(ev.clock), document |-> SessionSummary(log)])
                                        ELSE @]
    /\ IndexUnchanged

StoreNext == Store_Tick \/ Store_StoreExecutionSession

SpecStore == InitStore /\ [][StoreNext]_vars

-----------------------------------------------------------------------------

(* shouldTrackFile on its own: one path of a working directory against one
   configuration *)

\* relative paths of files, each of one byte
TrackPaths ==
    { <<"a", ".", "g", "o">>, <<"t", "m", "p", "/", "x", ".", "g", "o">>, <<"t", "m", "p", "l", ".", "g", "o">>,
      <<"s", "r", "c", "/", "t", "m", "p", ".", "g", "o">>, <<"n", "o", "t", "e", "s", ".", "l", "o", "g">>,
      <<"l", "o", "g", ".", "m", "d">>, <<".", "g", "i", "t", "/", "x", ".", "m", "d">>, <<"R", "E", "A", "D", "M", "E">> }

TrackFs == [p \in TrackPaths |-> File(<<"x">>, 0)]

\* exclude patterns of the default configuration (config.go 164)
DefaultExcludePatterns ==
    << <<".", "g", "i", "t", "/", "*">>, <<"*", ".", "l", "o", "g">>, <<"t", "m", "p", "/", "*">>, <<"*", ".", "t", "m", "p">> >>

\* the sub-lists of the default patterns
TrackPatternLists ==
    { SelectSeq(DefaultExcludePatterns, LAMBDA p : p \in chosen) :
          chosen \in SUBSET {DefaultExcludePatterns[i] : i \in 1..Len(DefaultExcludePatterns)} }

TrackConfigs ==
    [Enabled : BOOLEAN, Extensions : {CfgExtensions, <<>>}, MaxFileSize : {0, CfgMaxFileSize},
     ExcludePatterns : TrackPatternLists]

InitTrack ==
    /\ ev \in [phase : {"track"}, op : {"none"}, config : TrackConfigs, relPath : TrackPaths, tracked : {FALSE}]
    /\ fe = "Track"
    /\ AutoApprove = FALSE
    /\ MaxAttempts = 0
    /\ pc = "input"
    /\ originalRequest = <<>>
    /\ commandQueue = <<>>
    /\ executionLog = <<>>
    /\ attempt = 0
    /\ lastErr = FALSE
    /\ pendingCommand = <<>>
    /\ inflight = NoCmd
    /\ ret = NoRet
    /\ hist = HistInit

Track_shouldTrackFile ==
    /\ fe = "Track" /\ ev.op = "none"
    /\ ev' = [ev EXCEPT !.op = "shouldTrackFile",
                        !.tracked = shouldTrackFile(ev.config, TrackFs, ev.relPath)]
    /\ IndexUnchanged

SpecTrack == InitTrack /\ [][Track_shouldTrackFile]_vars

-----------------------------------------------------------------------------

----------------------------------------------------------------------------
(* Properties *)

\* s ends with p; s is the beginning of t
HasSuffix(s, p) == Len(p) <= Len(s) /\ SubSeq(s, Len(s) - Len(p) + 1, Len(s)) = p
IsPrefixOf(s, t) == Len(s) <= Len(t) /\ SubSeq(t, 1, Len(s)) = s

\* executeCommandsIteratively of the Session has been entered by the current request
Session_Entered == fe = "Session" /\ hist.requests > 0 /\ hist.attempts > 0

\* ... and has returned
Session_Returned == Session_Entered /\ pc = "input"

\* C1: with auto-approve on and an evaluator that on every call returns
\* shouldContinue = true with exactly one command, executeCommandsIteratively of
\* the Session, entered with a non-empty queue, makes exactly maxAttempts
\* attempts and exactly maxAttempts evaluator calls (never more on the way), then
\* stops with the last returned command still in the queue, ends the log with the
\* max-attempts marker and returns the log with a nil error.
C1_AttemptBudget ==
    (Session_Entered /\ AutoApprove /\ hist.allOne) =>
        /\ hist.attempts <= EffectiveMaxAttempts
        /\ hist.evalCalls <= EffectiveMaxAttempts
        /\ hist.exit \in {"none", "finished"}
        /\ pc \in {"finish", "input"} =>
             /\ hist.attempts = EffectiveMaxAttempts
             /\ hist.evalCalls = EffectiveMaxAttempts
             /\ commandQueue = hist.lastEval.commands
             /\ Len(commandQueue) = 1
        /\ pc = "input" =>
             /\ hist.exit = "finished"
             /\ HasSuffix(executionLog, MaxAttemptsMarker(EffectiveMaxAttempts))
             /\ ret = [kind |-> "text", text |-> executionLog]

\* the default budget of three attempts is used up by an evaluator that always
\* continues with one command
C1_Witness ==
    /\ Session_Returned /\ AutoApprove /\ hist.allOne
    /\ MaxAttempts = 0
    /\ hist.attempts = 3 /\ hist.evalCalls = 3
    /\ Len(commandQueue) = 1

\* the commands of a list of (cmd, failed) records
Cmds(ran) == [i \in 1..Len(ran) |-> ran[i].cmd]

\* the user has denied a command during the current request
Denied == \E i \in 1..Len(hist.answers) : ~hist.answers[i]

\* C2: in the Session and the SimpleSession with auto-approve off, once the user
\* has denied the k-th command of a queue executeCommandsIteratively has
\* returned (no step of the run is left to take): the denial is the last thing
\* that happened, the k-1 commands before it are all that the attempt executed,
\* the denied command and the rest of the queue were never passed to Execute,
\* and the evaluator was called for the earlier attempts only.
C2_DenialUnwinds ==
    (fe \in {"Session", "SimpleSession"} /\ Denied) =>
        LET n == Len(hist.answers)
        IN  /\ ~AutoApprove
            /\ pc = "input"
            /\ hist.exit = "denied"
            /\ Len(hist.prompted) = n
            /\ \A i \in 1..n : hist.answers[i] <=> i < n
            /\ hist.execd = SubSeq(hist.prompted, 1, n - 1)
            /\ Cmds(hist.ran) \o <<hist.prompted[n]>> \o commandQueue = hist.startQueue
            /\ hist.evalCalls = hist.attempts - 1
            /\ hist.finals = 0

\* three queued commands, the second is denied, the third is still queued
C2_Witness ==
    /\ fe = "Session" /\ Denied
    /\ Len(hist.startQueue) = 3
    /\ hist.answers = <<TRUE, FALSE>>
    /\ Len(commandQueue) = 1
    /\ pc = "input"

\* executeCommandsIteratively of the Session or the SimpleSession was entered by
\* the current request and has returned
Run_Returned == fe \in {"Session", "SimpleSession"} /\ hist.requests > 0 /\ hist.attempts > 0 /\ pc = "input"

\* C3: for every run of executeCommandsIteratively, StoreExecutionSession is
\* invoked exactly once before the call returns, on every exit path (final
\* answer returned, evaluator stop, evaluator error, budget exhausted, denial).
C3_StoredExactlyOnce == Run_Returned => hist.stores = 1

\* the Session returns the final answer of an achieved goal and has stored nothing
C3_Witness ==
    /\ Run_Returned /\ fe = "Session"
    /\ hist.exit = "answer" /\ hist.lastEval.via = "achieved"
    /\ hist.stores = 0

\* the prompts the user approved, in order
RECURSIVE ApprovedOf(_, _)
ApprovedOf(prompted, answers) ==
    IF prompted = <<>> \/ answers = <<>> THEN <<>>
    ELSE (IF Head(answers) THEN <<Head(prompted)>> ELSE <<>>)
         \o ApprovedOf(Tail(prompted), Tail(answers))

\* the commands handed to CommandExecutor.Execute during the current request:
\* those whose result is in, and the one a tea.Cmd is still running
HandedToExecute ==
    hist.execd \o (IF inflight.kind = "execute" THEN <<inflight.command>> ELSE <<>>)

\* C4: with auto-approve off, in each of the four front-ends the commands passed
\* to Execute are, one for one and in order, commands that were shown to the user
\* at the permission prompt and approved: none runs without an approval of its
\* own, whatever the requests, answers and evaluator results.
C4_ApprovalGating ==
    ~AutoApprove =>
        /\ HandedToExecute = ApprovedOf(hist.prompted, hist.answers)
        /\ Len(hist.answers) <= Len(hist.prompted)
        /\ Len(hist.prompted) <= Len(hist.answers) + 1

\* the full-screen front-end, second request: commands have run, each on an
\* approval, and a denial has been given as well
C4_Witness ==
    /\ fe = "Model" /\ ~AutoApprove
    /\ hist.requests = 2
    /\ Len(hist.execd) >= 2
    /\ Len(hist.answers) > Len(hist.execd)

\* the last command of a list of (cmd, failed) records failed
LastFailed(ran) == ran # <<>> /\ ran[Len(ran)].failed

\* the evaluator has been called for the current attempt
AttemptEvaluated ==
    /\ hist.lastEval.via # "none"
    /\ hist.lastEval.attemptNo = hist.attempts
    /\ hist.lastEval.ran = hist.ran

\* C5: in executeCommandsIteratively of the Session a failed command is the last
\* one its attempt executes; what follows is the evaluator call, whose
\* remainingCommands are the part of the attempt's queue that was not executed
\* and whose hadError is true exactly when the last executed command failed.
C5_FailureStopsDrain ==
    Session_Entered =>
        /\ \A i \in 1..(Len(hist.ran) - 1) : ~hist.ran[i].failed
        /\ pc = "drain" => ~LastFailed(hist.ran)
        /\ LastFailed(hist.ran) => (pc = "evaluate" /\ lastErr) \/ AttemptEvaluated
        /\ hist.lastEval.via # "none" =>
             LET e == hist.lastEval
             IN  /\ e.ran # <<>>
                 /\ Cmds(e.ran) \o e.remaining = e.startQueue
                 /\ e.hadError <=> LastFailed(e.ran)

\* the second of three commands failed: the evaluator got the third as the
\* remainder and hadError = true
C5_Witness ==
    /\ Session_Entered
    /\ hist.lastEval.via # "none"
    /\ hist.lastEval.hadError
    /\ Len(hist.lastEval.ran) = 2
    /\ Len(hist.lastEval.remaining) = 1

\* the evaluator call of the harness has returned
EvDone == ev.phase = "out"

\* what the goal check of that call reported
EvGoal == checkGoalAchievement(ev.log, ev.request, ev.goalReply)

\* the call got past the goal check: no error, goal not achieved
EvGoalOpen == EvDone /\ ~EvGoal.err /\ ~EvGoal.achieved

\* the call asked the model about a non-empty queue and got an answer
EvQueueAnswered == EvGoalOpen /\ ev.remaining # <<>> /\ ~ev.stepReply.err

\* the first line of the answer (of the trimmed answer, as the evaluator
\* splits it), trimmed and upper-cased
EvFirstLine == TrimSpace(ToUpper(Head(SplitLines(TrimSpace(ev.stepReply.text)))))

\* C6: when the goal is not achieved and the queue is non-empty, an answer
\* whose first line, trimmed and upper-cased, is not exactly PROCEED, MODIFY or
\* STOP makes EvaluateAndGetNextCommands return no commands, shouldContinue =
\* false and no error: the queue is never continued on an unrecognized answer.
C6_FailClosed ==
    (EvQueueAnswered /\ EvFirstLine \notin {S_PROCEED, S_MODIFY, S_STOP}) =>
        /\ ev.result.commands = <<>>
        /\ ~ev.result.shouldContinue
        /\ ~ev.result.err

\* a near miss: the first line mentions PROCEED but is not the word alone, two
\* commands are queued, and the evaluation stops
C6_Witness ==
    /\ EvQueueAnswered
    /\ EvFirstLine \notin {S_PROCEED, S_MODIFY, S_STOP}
    /\ Contains(EvFirstLine, S_PROCEED)
    /\ Len(ev.remaining) = 2
    /\ ~ev.result.shouldContinue

\* C7: if the goal check reports achieved, EvaluateAndGetNextCommands returns
\* no commands, shouldContinue = false and a nil error whatever remainingCommands
\* and hadError are, and the model is asked neither for next commands nor for a
\* queue decision; if the goal check fails, the result is no commands, false and
\* the error.
C7_GoalEndsEvaluation ==
    EvDone =>
        /\ EvGoal.err =>
             /\ ev.result.commands = <<>> /\ ~ev.result.shouldContinue /\ ev.result.err
             /\ ev.result.asked = <<"goal">>
        /\ (~EvGoal.err /\ EvGoal.achieved) =>
             /\ ev.result.commands = <<>> /\ ~ev.result.shouldContinue /\ ~ev.result.err
             /\ ev.result.asked = <<"goal">>

\* the goal is achieved while two commands are queued, the last command failed
\* and the model would have answered PROCEED
C7_Witness ==
    /\ EvDone /\ ~EvGoal.err /\ EvGoal.achieved
    /\ Len(ev.remaining) = 2 /\ ev.hadError
    /\ ev.stepReply = LLMText(S_PROCEED)
    /\ ~ev.result.shouldContinue

\* the run of the Session is in the attempt that follows its latest evaluation
InNextAttempt == hist.attempts = hist.lastEval.attemptNo + 1

EvReplacement == SelectSeq(MapTrim(Tail(SplitLines(TrimSpace(ev.stepReply.text)))), IsValid)

\* C9: on a MODIFY decision the commands EvaluateAndGetNextCommands returns are
\* exactly the lines after the first line that pass the command validator, in
\* order, and nothing of the queue it was given; shouldContinue is true exactly
\* when at least one replacement line validates.
C9_ModifyReplaces ==
    (EvQueueAnswered /\ EvFirstLine = S_MODIFY) =>
        /\ ev.result.commands = EvReplacement
        /\ ev.result.shouldContinue <=> EvReplacement # <<>>
        /\ ~ev.result.err

\* a MODIFY answer with comment, blank, prompt and number lines among three
\* valid ones replaces a queue of two commands, none of which is kept
C9_Witness ==
    /\ EvQueueAnswered /\ EvFirstLine = S_MODIFY
    /\ Len(ev.remaining) = 2
    /\ Len(ev.result.commands) = 3
    /\ Len(SplitLines(TrimSpace(ev.stepReply.text))) > 4
    /\ \A i \in 1..2, j \in 1..3 : ev.remaining[i] # ev.result.commands[j]
    /\ ev.result.shouldContinue

\* the answer in the no-queue branch is NONE in some letter case, or empty
EvNoneAnswer ==
    /\ EvGoalOpen /\ ev.remaining = <<>> /\ ~ev.stepReply.err
    /\ \/ ToUpper(TrimSpace(ev.stepReply.text)) = S_NONE
       \/ TrimSpace(ev.stepReply.text) = <<>>

\* C10: in the no-queue branch an answer that is NONE in any letter case (after
\* trimming) or is empty ends the evaluation: no commands, shouldContinue = false.
C10_NoneTerminates ==
    EvNoneAnswer => ev.result.commands = <<>> /\ ~ev.result.shouldContinue

\* the answer "none": the evaluation continues with the command none
C10_Witness ==
    /\ EvNoneAnswer
    /\ ev.stepReply.text = <<"n", "o", "n", "e">>
    /\ ev.result.commands = << <<"n", "o", "n", "e">> >>
    /\ ev.result.shouldContinue

\* the block the log must hold for a failed command: the command line, the
\* captured output when there is any, and the line Error: <err>
FailureBlock(r) ==
    <<"$", " ">> \o r.cmd \o <<"\n">>
    \o (IF r.output # <<>> THEN r.output \o <<"\n">> ELSE <<>>)
    \o <<"E", "r", "r", "o", "r", ":", " ">> \o S_CommandFailed \o <<"\n", "\n">>

\* C11: a failing Execute is never fatal to the Session's
\* executeCommandsIteratively: the call does not return an error, the log ends
\* with a block for the failed command that holds Error: <err>, preceded by the
\* captured output when it is non-empty, and that log is the one handed to the
\* evaluator, with hadError set.
C11_FailureNotFatal ==
    Session_Entered =>
        /\ ret.kind # "error"
        /\ (LastFailed(hist.ran) /\ pc = "evaluate") =>
             HasSuffix(executionLog, FailureBlock(hist.ran[Len(hist.ran)]))
        /\ (hist.lastEval.via # "none" /\ LastFailed(hist.lastEval.ran)) =>
             LET e == hist.lastEval
             IN  /\ HasSuffix(e.log, FailureBlock(e.ran[Len(e.ran)]))
                 /\ e.hadError
        /\ (LastFailed(hist.ran) /\ pc = "input") => ret.kind = "text"

\* a command failed with captured output, the evaluator got the log with its
\* block, and the call returned the log, not an error
C11_Witness ==
    /\ Session_Returned
    /\ hist.lastEval.via # "none"
    /\ LastFailed(hist.lastEval.ran)
    /\ hist.lastEval.ran[Len(hist.lastEval.ran)].output # <<>>
    /\ Len(hist.lastEval.ran) = 2
    /\ ret.kind = "text"

\* the text of the marker for the effective attempt budget
MarkerText ==
    <<"\n", "M", "a", "x", " ", "a", "t", "t", "e", "m", "p", "t", "s", " ", "(">> \o Itoa(EffectiveMaxAttempts)
    \o <<")", " ", "r", "e", "a", "c", "h", "e", "d", ".", " ", "R", "e", "m", "a", "i", "n", "i", "n", "g", " ", "c", "o", "m", "m", "a", "n", "d", "s", " ", "n", "o", "t", " ", "e", "x", "e", "c", "u", "t", "e", "d", ".", "\n">>

ExecDone == fe = "Executor" /\ ev.phase = "out"

\* ... for a command that holds the pipe separator
ExecPiped == ExecDone /\ Contains(ev.cmdStr, S_Bar)

\* the stages of the command, by position, and the positions that are not blank
ExecStages == SplitOn(ev.cmdStr, S_Bar)
ExecNonBlank == {i \in 1..Len(ExecStages) : TrimSpace(ExecStages[i]) # <<>>}

\* the positions of the stages that were run
ExecRan == {ev.result.trace[j].index : j \in 1..Len(ev.result.trace)}

\* C13: for a command containing " | " the non-blank stages run in order and
\* stop at the first one that fails; the error names that stage by its position
\* k (1-indexed): "command failed" for k = 1, "pipe step k failed" for k > 1; when
\* every stage succeeds all of them have run and no error is returned.
C13_PipelineAttribution ==
    ExecPiped =>
        LET tr == ev.result.trace
            n == Len(tr)
        IN  /\ \A j \in 1..n : tr[j].index \in ExecNonBlank
            /\ \A j \in 1..(n - 1) : tr[j].index < tr[j + 1].index /\ ~tr[j].failed
            /\ \A i \in ExecNonBlank : (\E k \in ExecRan : i <= k) => i \in ExecRan
            /\ IF n > 0 /\ tr[n].failed
               THEN /\ ev.result.err.failed
                    /\ tr[n].index = 1 =>
                         Contains(ev.result.err.text, <<"c", "o", "m", "m", "a", "n", "d", " ", "f", "a", "i", "l", "e", "d">>)
                    /\ tr[n].index > 1 =>
                         Contains(ev.result.err.text, <<"p", "i", "p", "e", " ", "s", "t", "e", "p", " ">> \o Itoa(tr[n].index) \o <<" ", "f", "a", "i", "l", "e", "d">>)
               ELSE /\ ~ev.result.err.failed
                    /\ ExecRan = ExecNonBlank

\* three stages, the second blank, the third fails: pipe step 3 failed
C13_Witness ==
    /\ ExecPiped
    /\ Len(ExecStages) = 3 /\ ExecNonBlank = {1, 3}
    /\ ExecRan = {1, 3}
    /\ ev.result.err.failed
    /\ Contains(ev.result.err.text, <<"p", "i", "p", "e", " ", "s", "t", "e", "p", " ", "3", " ", "f", "a", "i", "l", "e", "d">>)

\* C14: in a pipeline the first stage run reads nothing and every later stage
\* reads exactly the standard output of the stage run before it, never its
\* standard error; blank stages are not run and leave the stream as it is; on
\* success the returned text begins with the last stage's standard output,
\* standard error being an annotation after it.
C14_PipelineDataFlow ==
    ExecPiped =>
        LET tr == ev.result.trace
            n == Len(tr)
        IN  /\ \A j \in 1..n :
                 /\ tr[j].part = TrimSpace(ExecStages[tr[j].index])
                 /\ tr[j].part # <<>>
                 /\ tr[j].stdin = (IF j = 1 THEN <<>> ELSE tr[j - 1].stdout)
            /\ (n > 0 /\ ~ev.result.err.failed) =>
                 /\ IsPrefixOf(tr[n].stdout, ev.result.output)
                 /\ tr[n].stderr = <<>> => ev.result.output = tr[n].stdout

\* the first stage writes to both streams, the second is blank, the third
\* counts the three bytes of the first stage's standard output
C14_Witness ==
    /\ ExecPiped
    /\ Len(ExecStages) = 3 /\ ExecRan = {1, 3}
    /\ ev.result.trace[1].stderr # <<>>
    /\ ev.result.trace[2].stdin = <<"h", "i", "\n">>
    /\ ev.result.output = <<"3", "\n">>
    /\ ~ev.result.err.failed

\* a command without the separator that exited with a non-zero status
ExecSimpleFailed ==
    /\ ExecDone /\ ~Contains(ev.cmdStr, S_Bar)
    /\ ev.result.trace[1].failed

\* what the command wrote, both streams
ExecCaptured == ev.result.trace[1].stdout \o ev.result.trace[1].stderr

\* C15 as stated: the text of the error Execute returns for a non-zero exit
\* of a command without " | " includes the captured output.
C15_ErrorTextHasOutput ==
    ExecSimpleFailed => Contains(ev.result.err.text, ExecCaptured)

\* C15: for a command without " | ", a non-zero exit is surfaced by Execute as
\* an error whose text is "command failed: " followed by the exit status, and the
\* captured output of both streams is returned beside it, as the first result.
C15_FailureCarriesOutput ==
    ExecSimpleFailed =>
        /\ ev.result.err.failed
        /\ HasPrefix(ev.result.err.text, <<"c", "o", "m", "m", "a", "n", "d", " ", "f", "a", "i", "l", "e", "d", ":", " ", "e", "x", "i", "t", " ", "s", "t", "a", "t", "u", "s", " ">>)
        /\ ev.result.output = ExecCaptured

\* a failing command that wrote to both streams: the output is returned, the
\* error text has only the exit status
C15_Witness ==
    /\ ExecSimpleFailed
    /\ ev.result.trace[1].stdout # <<>> /\ ev.result.trace[1].stderr # <<>>
    /\ ev.result.output = ExecCaptured
    /\ ev.result.err.text = <<"c", "o", "m", "m", "a", "n", "d", " ", "f", "a", "i", "l", "e", "d", ":", " ", "e", "x", "i", "t", " ", "s", "t", "a", "t", "u", "s", " ", "1", "2", "7">>

\* a function of the text harness has returned
TextDone(fn) == fe = "Text" /\ ev.phase = "out" /\ ev.fn = fn

\* the reasons for which a line is no command
LineIsNoise(line) ==
    \/ TrimSpace(line) = <<>>
    \/ line[1] \in {"$", "#", ">"}
    \/ \E i \in 1..Len(line) : line[i] = "\n"
    \/ Contains(line, <<"d", "r", "w", "x", "r", "-", "x", "r", "-", "x">>) \/ Contains(line, <<"t", "o", "t", "a", "l", " ">>)
    \/ AtoiOk(TrimSpace(line))
    \/ Contains(line, <<"E", "r", "r", "o", "r", ":">>) \/ Contains(line, <<"c", "o", "m", "m", "a", "n", "d", " ", "n", "o", "t", " ", "f", "o", "u", "n", "d">>)

\* C16: IsValid(line) is false for every line that is empty after trimming,
\* begins with $, # or >, contains a newline, contains "drwxr-xr-x" or "total ",
\* parses as an integer (strconv.Atoi of the trimmed line succeeds), or contains
\* "Error:" or "command not found"; and it is true for every other line.
C16_IsValidExactly ==
    TextDone("IsValid") => (ev.result <=> ~LineIsNoise(ev.text))

\* a fragment of two lines, each a command by itself, is rejected
C16_Witness ==
    /\ TextDone("IsValid")
    /\ ev.text = <<"l", "s", "\n", "g", "r", "e", "p", " ", "s", "o", "m", "e", "t", "h", "i", "n", "g">>
    /\ ~ev.result

\* C17: ParseCommands(response) is exactly the trimmed lines of the response
\* that satisfy IsValid, in their order and with repeats kept; it is the empty
\* sequence when no line validates, the empty response included, and it is
\* always a sequence, never an error.
C17_ParseCommandsExactly ==
    TextDone("ParseCommands") =>
        /\ ev.result = SelectSeq(MapTrim(SplitLines(ev.text)), IsValid)
        /\ ev.text = <<>> => ev.result = <<>>

\* five lines with repeats come back as they are
C17_Witness ==
    /\ TextDone("ParseCommands")
    /\ Len(ev.result) = 5
    /\ ev.result[1] = ev.result[3] /\ ev.result[2] = ev.result[4]
    /\ ev.result[1] # ev.result[2]

\* C18: requestPermission approves the empty line and y or yes in any letter
\* case, and denies n or no in any letter case, whitespace around the answer
\* being ignored.
C18_PermissionAnswers ==
    TextDone("requestPermission") =>
        LET answer == ToLower(TrimSpace(ev.text))
        IN  /\ answer \in {<<>>, <<"y">>, <<"y", "e", "s">>} => ev.result
            /\ answer \in {<<"n">>, <<"n", "o">>} => ~ev.result

\* YES in capitals with whitespace around it is an approval
C18_Witness ==
    /\ TextDone("requestPermission")
    /\ ev.text = <<"\t", "Y", "E", "S", " ", "\n">>
    /\ ev.result

\* an operation of the indexer has returned
IndexDone(op) == fe = "AutoIndexer" /\ ev.op = op

\* C19: DetectChanges never changes the stored snapshot, and a DetectChanges
\* that follows another one with no filesystem mutation and no TakeSnapshot
\* in between returns the change set the first one returned.
C19_DetectReadOnlyRepeatable ==
    IndexDone("DetectChanges") =>
        /\ ev.snapshotKept
        /\ ev.repeat # "differs"

\* a second DetectChanges in a row, both reporting two changed files against
\* a baseline that knows one of them
C19_Witness ==
    /\ IndexDone("DetectChanges")
    /\ ev.repeat = "same"
    /\ Len(ev.detected) = 2
    /\ ev.lastSnapshot # <<>>

\* C20: after a trackable file is written, reported by DetectChanges, passed
\* to IndexChangedFiles and the baseline is reset by TakeSnapshot, the next
\* DetectChanges with no filesystem mutation in between returns no change;
\* so does every DetectChanges on a baseline taken after the last mutation.
C20_RoundTripEmpty ==
    IndexDone("DetectChanges") =>
        /\ ev.trip.stage = "checked" => ev.detected = <<>>
        /\ ev.fresh => ev.detected = <<>>

\* the round trip was made for a file that is now in the baseline
C20_Witness ==
    /\ IndexDone("DetectChanges")
    /\ ev.trip.stage = "checked"
    /\ ev.trip.path \in DOMAIN ev.lastSnapshot
    /\ ev.detected = <<>>

\* the path is a file of the tree that the configuration tracks
Trackable(p) == ev.fs[p].exists /\ shouldTrackFile(ev.config, ev.fs, p)

\* the content of the path is not the one the baseline knows
NewOrModified(p) ==
    \/ p \notin DOMAIN ev.lastSnapshot
    \/ ev.lastSnapshot[p].Hash # [sha256 |-> ev.fs[p].content]

\* what DetectChanges returned, classified path by path
C21_Classified ==
    IndexDone("DetectChanges") =>
        \A p \in PathSet :
            /\ Trackable(p) => (p \in SeqSet(ev.detected) <=> NewOrModified(p))
            /\ ~ev.fs[p].exists => p \notin SeqSet(ev.detected)

InCall(t, op) == ev.tasks[t].op = op /\ ev.tasks[t].pc # "idle"

\* C22: while a task is inside TakeSnapshot no other task is inside
\* DetectChanges or TakeSnapshot, and all the lookups one DetectChanges makes
\* in lastSnapshot are made in the same snapshot (the old one or the new one).
C22_SnapshotLocking ==
    fe = "SnapshotLock" =>
        /\ \A t \in Tasks : InCall(t, "TakeSnapshot") => \A u \in Tasks \ {t} : ev.tasks[u].pc = "idle"
        /\ \A t \in Tasks : Cardinality(ev.tasks[t].seen) <= 1

\* two DetectChanges calls overlap, both past their first lookup, after a
\* third task has replaced the snapshot
C22_Witness ==
    /\ fe = "SnapshotLock"
    /\ ev.version = 1
    /\ \E t, u \in Tasks :
          /\ t # u
          /\ InCall(t, "DetectChanges") /\ ev.tasks[t].seen = {1}
          /\ InCall(u, "DetectChanges") /\ ev.tasks[u].seen = {1}

\* a tracked file whose content no IndexChangedFiles call has been given
Unindexed(p) ==
    /\ ev.fs[p].exists /\ shouldTrackFile(ev.config, ev.fs, p)
    /\ p \notin DOMAIN ev.settled \/ ev.settled[p] # ev.fs[p].content

\* no task is running and no command is left
TasksQuiet ==
    /\ fe = "AutoIndexTasks"
    /\ ev.clock = MaxFsOps
    /\ \A k \in TaskIds : ev.tasks[k].pc = "done"

\* C23: every trackable file created or modified by a successful command is
\* eventually passed to IndexChangedFiles, whatever the interleaving of the
\* detached tasks with the later commands.
C23_EventuallyIndexed ==
    \A p \in PathSet : (fe = "AutoIndexTasks" /\ Unindexed(p)) ~> (fe = "AutoIndexTasks" /\ ~Unindexed(p))

\* all tasks have ended, and a file written by the second command sits in the
\* baseline with its current hash although no task was given it
C23_Witness ==
    /\ TasksQuiet
    /\ \E p \in PathSet :
          /\ Unindexed(p)
          /\ p \in ev.absorbed
          /\ ev.fs[p].modTime = 2
          /\ p \in DOMAIN ev.lastSnapshot
          /\ ev.lastSnapshot[p].Hash = [sha256 |-> ev.fs[p].content]
          /\ \A d \in ev.docs : d.path # p

\* the step passed one more command to Execute
ExecutedOne == Len(hist'.execd) = Len(hist.execd) + 1

\* what a step may do to the detached tasks, and what a task may do to the loop
C24_TaskStep ==
    /\ ev'.running > ev.running =>
          /\ ev.autoIndexer
          /\ ev'.running = ev.running + 1
          /\ ExecutedOne
          /\ ~hist'.ran[Len(hist'.ran)].failed
    /\ (ExecutedOne /\ hist'.ran[Len(hist'.ran)].failed) => ev'.running = ev.running
    /\ ev'.running < ev.running =>
          UNCHANGED <<executionLog, lastErr, commandQueue, originalRequest, attempt, pc, ret, hist>>

\* C24: the auto-indexing task is started only by a step that executed a
\* command successfully and only when an auto-indexer is configured, and a
\* step of a task changes neither the execution log, nor hadError, nor the
\* command queue, nor anything else the Evaluator is given.  (That the loop
\* does not wait for a task is what the witness shows: the call returns
\* while one is running.)
C24_AutoIndexDetached ==
    /\ [][C24_TaskStep]_vars
    /\ [](ev.phase = "idle" /\ ~ev.autoIndexer => ev.running = 0)

\* the call has returned after an attempt whose last command failed, the
\* Evaluator was told so, and a task started by an earlier command is still
\* running
C24_Witness ==
    /\ Session_Returned
    /\ ev.autoIndexer /\ ev.running = 1
    /\ hist.lastEval.via # "none"
    /\ hist.lastEval.hadError
    /\ Len(hist.lastEval.ran) = 2
    /\ ~hist.lastEval.ran[1].failed /\ hist.lastEval.ran[2].failed

\* HandlePrompt has reached the language-model call
ContextDone == fe = "Context" /\ ev.phase = "out"

\* C25: when GetCombinedContext fails, HandlePrompt still calls the language
\* model, with an empty context; when only the history lookup fails, the
\* model is called with the document context alone and nothing is reported.
C25_ContextDegrades ==
    ContextDone =>
        /\ ev.documents.err => ev.result.llmCalled /\ ev.result.context = <<>>
        /\ (~ev.documents.err /\ ~ev.NoHistory /\ ev.history.err) =>
              /\ ev.result.llmCalled
              /\ ev.result.context = ev.documents.items
              /\ ~ev.result.warned
        /\ ev.result.err <=> ev.llmFails

\* the history lookup failed and the two documents found are the context
C25_Witness ==
    /\ ContextDone
    /\ ~ev.NoHistory /\ ev.history.err
    /\ ev.result.context = <<"doc1", "doc2">>
    /\ ~ev.result.warned /\ ~ev.result.err

\* executeCommandsIteratively of the Session or the SimpleSession is running
InRun == fe \in {"Session", "SimpleSession"} /\ pc # "input"

\* N of the claim
AttemptBudget == IF MaxAttempts >= 1 THEN MaxAttempts ELSE 3

C26_Bounds ==
    fe \in {"Session", "SimpleSession"} =>
        /\ hist.attempts <= AttemptBudget
        /\ hist.evalCalls <= AttemptBudget
        /\ pc = "drain" => attempt \in 1..AttemptBudget

\* C26: whatever the user, the Executor and the Evaluator do, every run of
\* executeCommandsIteratively ends, after at most N attempts and at most N
\* Evaluator calls, N being MaxAttempts when that is at least 1 and 3
\* otherwise; while commands are executed the attempt counter is in 1..N.
C26_BoundedTermination ==
    /\ []C26_Bounds
    /\ InRun ~> ~InRun

\* a run with the default budget has used all three attempts and three
\* evaluations, and has returned
C26_Witness ==
    /\ Run_Returned
    /\ MaxAttempts = 0
    /\ hist.attempts = 3 /\ hist.evalCalls = 3

\* the latest EvaluateAndGetNextCommands call of the Session's current request
\* returned an error
EvalFailed == fe = "Session" /\ hist.evalCalls > 0 /\ hist.lastEval.err

C27_AfterEvalError ==
    EvalFailed /\ hist'.requests = hist.requests =>
        /\ hist'.execd = hist.execd /\ hist'.prompted = hist.prompted
        /\ hist'.evalCalls = hist.evalCalls
        /\ hist'.finals = hist.finals
        /\ pc' = "input" /\ ret' = [kind |-> "text", text |-> executionLog']
        /\ SubSeq(executionLog', 1, Len(executionLog)) = executionLog

\* C27: when EvaluateAndGetNextCommands returns an error, no further command
\* is executed (or offered) for that request, GenerateFinalAnswer is not
\* called, and executeCommandsIteratively returns the execution log as its
\* text, with a nil error.
C27_EvalErrorEndsRun ==
    /\ [](EvalFailed => hist.finals = 0 /\ pc \in {"finish", "input"})
    /\ [](EvalFailed /\ pc = "input" => ret.kind = "text" /\ ret.text = executionLog)
    /\ [][C27_AfterEvalError]_vars

\* the second evaluation of a request failed while a command was still
\* queued, and the call has returned the log
C27_Witness ==
    /\ EvalFailed /\ pc = "input"
    /\ hist.evalCalls = 2 /\ hist.lastEval.remaining # <<>>
    /\ Len(hist.execd) > 0
    /\ ret.kind = "text"

\* IndexChangedFiles has just returned and left no document with the present
\* content of p, a file of its list that is still in the tree: reading,
\* embedding or storing p failed
FailedToIndex(p) ==
    /\ IndexDone("IndexChangedFiles")
    /\ p \in SeqSet(ev.detected)
    /\ ev.fs[p].exists
    /\ [path |-> p, content |-> ev.fs[p].content] \notin ev.docs

\* the DetectChanges that comes next would report p
ReportedAgain(p) == p \in SeqSet(DetectChanges(ev.config, ev.fs, ev.lastSnapshot))

\* C28: the baseline is replaced only after a successful indexing pass: a
\* changed file whose reading, embedding or storing fails inside
\* IndexChangedFiles is not absorbed into the baseline and is reported again
\* by the next DetectChanges.
C28_FailedFileReportedAgain ==
    \A p \in PathSet : FailedToIndex(p) => ReportedAgain(p)

\* a.go was reported as changed, its embedding or storing failed, nothing
\* is stored, and the baseline now holds its hash: DetectChanges no longer
\* reports it
C28_Witness ==
    LET p == <<"a", ".", "g", "o">>
    IN  /\ FailedToIndex(p)
        /\ ev.docs = {}
        /\ p \in DOMAIN ev.lastSnapshot
        /\ ev.lastSnapshot[p].Hash = calculateFileHash(ev.fs[p])
        /\ ~ReportedAgain(p)

\* GenerateFinalAnswer was called for the current request of a blocking front-end
FinalAnswerGenerated == fe \in {"Session", "SimpleSession"} /\ hist.finals > 0

\* C29: a final answer is generated and success reported only for a request
\* whose Evaluator goal check returned achieved, in the Session and in the
\* SimpleSession.
C29_FinalOnlyWhenAchieved ==
    FinalAnswerGenerated => hist.lastEval.via = "achieved"

\* the goal check of the Session's request said "not achieved", the Evaluator
\* then proposed no command, and the final answer was generated and returned
C29_Witness ==
    /\ FinalAnswerGenerated /\ fe = "Session"
    /\ hist.lastEval.via = "next" /\ hist.lastEval.commands = <<>>
    /\ hist.exit = "answer" /\ pc = "input"

\* some command of the current attempt failed
SomeFailed(ran) == \E i \in 1..Len(ran) : ran[i].failed

\* C30: the InlineModel and the full-screen Model obey the failure rule of
\* the Session: after a command fails, no further command of the queue is
\* executed or offered for approval before the Evaluator is consulted, the
\* failed command's captured output is written to the log, and the Evaluator
\* is told hadError = true.
C30_EventDrivenFailureRule ==
    fe \in {"InlineModel", "Model"} =>
        /\ \A i \in 1..(Len(hist.ran) - 1) : ~hist.ran[i].failed
        /\ SomeFailed(hist.ran) => pc # "approval" /\ inflight.kind # "execute"
        /\ LastFailed(hist.ran) =>
              LET last == hist.ran[Len(hist.ran)]
              IN  HasSuffix(executionLog, FormatFailure(last.cmd, last.output, S_CommandFailed))
        /\ AttemptEvaluated /\ LastFailed(hist.lastEval.ran) => hist.lastEval.hadError

\* the first command of the InlineModel's attempt failed with captured
\* output, the second one was executed all the same, and the Evaluator was
\* then called with hadError = false on a log without that output
C30_Witness ==
    /\ fe = "InlineModel" /\ AttemptEvaluated
    /\ Len(hist.ran) = 2
    /\ hist.ran[1].failed /\ hist.ran[1].output # <<>>
    /\ hist.ran[2].failed
    /\ ~hist.lastEval.hadError
    /\ ~HasSuffix(hist.lastEval.log, FormatFailure(hist.ran[2].cmd, hist.ran[2].output, S_CommandFailed))

\* the commands of a new top-level request are about to run: one of them is
\* at the permission prompt or on its way to the Executor, and nothing has
\* been executed or evaluated for the request yet
RequestStarts ==
    /\ hist.requests > 0 /\ hist.execd = <<>> /\ hist.evalCalls = 0
    /\ pc \in {"drain", "approval"} \/ inflight.kind = "execute"

\* C31: in every front-end, when a new top-level request starts, the
\* execution log is empty, the command queue holds only commands parsed from
\* the new response and the attempt counter is 1: nothing of an earlier
\* request is left to be executed, counted or shown to the Evaluator.
C31_RequestIsolation ==
    RequestStarts =>
        /\ executionLog = <<>>
        /\ attempt = 1
        /\ hist.attempts = 1
        /\ \A i \in 1..Len(commandQueue) : commandQueue[i] \in SeqSet(hist.startQueue)

\* the InlineModel starts the commands of its second request with the blocks
\* of the first request still in the log
C31_Witness ==
    /\ RequestStarts /\ fe = "InlineModel"
    /\ hist.requests = 2
    /\ executionLog # <<>>
    /\ attempt = 1

\* C32: given the same initial commands and the same answers of the user, the
\* Executor and the Evaluator's language model, the SimpleSession's loop and the
\* Session's loop issue the same approval prompts, Execute calls and
\* EvaluateAndGetNextCommands calls, with the same log text, remaining queue
\* and hadError, and stop together.
C32_SimpleRefinesSession ==
    fe = "LoopPair" =>
        /\ ev.simple.calls = ev.session.calls
        /\ ev.simple.pc = ev.session.pc

\* both loops have made their second evaluation, after a failed command, with
\* the same non-empty log and hadError = true
C32_Witness ==
    /\ fe = "LoopPair"
    /\ ev.session.attempt >= 2
    /\ Len(ev.session.calls) = 1 /\ ev.session.calls[1].kind = "evaluate"
    /\ ev.session.calls[1].hadError /\ ev.session.calls[1].remaining # <<>>
    /\ ev.simple.calls = ev.session.calls

\* the first line of a log block: "$ <command>\n"
BlockHeader(cmd) == <<"$", " ">> \o cmd \o <<"\n">>

\* what one step of the Session does to the log within a request
C33_LogStep ==
    fe = "Session" /\ hist'.requests = hist.requests =>
        /\ IsPrefixOf(executionLog, executionLog')
        /\ Len(hist'.execd) = Len(hist.execd) + 1 =>
              LET block == SubSeq(executionLog', Len(executionLog) + 1, Len(executionLog'))
              IN  /\ IsPrefixOf(BlockHeader(hist'.execd[Len(hist'.execd)]), block)
                  /\ HasSuffix(block, <<"\n", "\n">>)
                  /\ hist'.ran[Len(hist'.ran)].failed <=> Contains(block, S_ErrorColon)
        /\ Len(hist'.execd) = Len(hist.execd) /\ pc # "finish" => executionLog' = executionLog
        /\ hist'.evalCalls = hist.evalCalls + 1 =>
              /\ hist'.lastEval.log = executionLog
              /\ hist.evalCalls > 0 => IsPrefixOf(hist.lastEval.log, hist'.lastEval.log)

\* C33: the Session's execution log is append-only and ordered: within one
\* request each executed command appends exactly one block beginning with
\* "$ <command>", in execution order, the text already in the log is never
\* altered or removed, and the log given to one Evaluator call is a prefix of
\* the log given to the next.
C33_LogAppendOnly == [][C33_LogStep]_vars

\* the second evaluation of a request got a log of two blocks, the first of
\* which was the whole log of the first evaluation
C33_Witness ==
    /\ fe = "Session" /\ hist.evalCalls = 2 /\ Len(hist.execd) = 2
    /\ hist.lastEval.log = executionLog
    /\ IsPrefixOf(BlockHeader(hist.execd[1]), executionLog)
    /\ \E k \in 1..(Len(executionLog) - 1) :
          IsPrefixOf(BlockHeader(hist.execd[2]), SubSeq(executionLog, k + 1, Len(executionLog)))

\* C34: every transcript persisted by StoreExecutionSession is stored under
\* an identifier different from that of every other persisted transcript,
\* whatever the time between the two calls.
C34_UniqueSessionIDs ==
    fe = "Store" =>
        \A i, j \in 1..Len(ev.commands) : i # j => ev.commands[i].id # ev.commands[j].id

\* two different transcripts, stored half a second apart, under one identifier
C34_Witness ==
    /\ fe = "Store" /\ Len(ev.commands) = 2 /\ ev.clock = 3
    /\ ev.commands[1].id = ev.commands[2].id
    /\ ev.commands[1].document # ev.commands[2].document

\* the path lies under the directory a pattern "dir/*" names
UnderDirectory(pattern, relPath) ==
    /\ HasSuffix(pattern, <<"/", "*">>)
    /\ HasPrefix(relPath, TrimSuffix(pattern, <<"/", "*">>) \o <<"/">>)

\* the size and extension rules let the path through
PassesSizeAndExtension(cfg, relPath) ==
    /\ cfg.Enabled
    /\ ~(cfg.MaxFileSize > 0 /\ Size(TrackFs[relPath]) > cfg.MaxFileSize)
    /\ \/ Len(cfg.Extensions) = 0
       \/ \E i \in 1..Len(cfg.Extensions) : ToLower(Ext(relPath)) = ToLower(cfg.Extensions[i])

\* C35: shouldTrackFile excludes a path on account of an exclude pattern P
\* only if the path matches P as a glob over the whole relative path or lies
\* under the directory P names; a path that merely holds that text elsewhere
\* stays trackable, subject to the size and extension rules.
C35_ExcludeOnlyGlobOrPrefix ==
    (fe = "Track" /\ ev.op = "shouldTrackFile") =>
        ((/\ PassesSizeAndExtension(ev.config, ev.relPath)
          /\ \A i \in 1..Len(ev.config.ExcludePatterns) :
                /\ ~Match(ev.config.ExcludePatterns[i], ev.relPath)
                /\ ~UnderDirectory(ev.config.ExcludePatterns[i], ev.relPath))
         => ev.tracked)

\* tmpl.go is refused because of the pattern tmp/*, which it neither matches
\* nor lies under
C35_Witness ==
    /\ fe = "Track" /\ ev.op = "shouldTrackFile"
    /\ ev.relPath = <<"t", "m", "p", "l", ".", "g", "o">>
    /\ ev.config.ExcludePatterns = << <<"t", "m", "p", "/", "*">> >>
    /\ PassesSizeAndExtension(ev.config, ev.relPath)
    /\ ~ev.tracked

\* C36: every result of EvaluateAndGetNextCommands with shouldContinue = true
\* carries a non-empty command list, and every result with an error has
\* shouldContinue = false and no commands, so that a session that goes on
\* has at least one command for its next attempt.
C36_EvalResultInvariant ==
    EvDone =>
        /\ ev.result.shouldContinue => ev.result.commands # <<>> /\ ~ev.result.err
        /\ ev.result.err => ~ev.result.shouldContinue /\ ev.result.commands = <<>>

\* a MODIFY answer with valid commands: the evaluation goes on with them
\* in place of the queue
C36_Witness ==
    /\ EvDone
    /\ ev.result.via = "modify" /\ ev.remaining # <<>>
    /\ ev.result.shouldContinue /\ ev.result.commands # <<>>
    /\ ev.result.commands # ev.remaining

\* the Command invariant: non-empty after trimming, one line, valid
IsCommand(cmd) == TrimSpace(cmd) # <<>> /\ ~Contains(cmd, <<"\n">>) /\ IsValid(cmd)

\* C37: at every point of a session every element of the command queue and
\* every string passed to CommandExecutor.Execute is non-empty after trimming,
\* holds no newline and satisfies IsValid, whether it came from the initial
\* response, from the no-queue branch or from a MODIFY decision.
C37_CommandInvariant ==
    fe \in {"Session", "SimpleSession", "InlineModel", "Model"} =>
        /\ \A i \in 1..Len(commandQueue) : IsCommand(commandQueue[i])
        /\ \A i \in 1..Len(hist.execd) : IsCommand(hist.execd[i])
        /\ inflight.kind = "execute" => IsCommand(inflight.command)

\* the Session has executed ls, got a MODIFY decision with the new command
\* pwd, and has that command queued for its next attempt
C37_Witness ==
    /\ fe = "Session" /\ pc = "drain"
    /\ hist.startQueue = << <<"p", "w", "d">> >>
    /\ hist.lastEval.via = "modify"
    /\ commandQueue = << <<"p", "w", "d">> >>
    /\ hist.execd = << <<"l", "s">> >>

\* C38: the "Max attempts (N) reached" marker is in the transcript only if
\* the attempt budget was exhausted, that is only if N attempts were made for
\* the request.
C38_MarkerOnlyWhenExhausted ==
    (Session_Returned /\ ret.kind = "text" /\ Contains(ret.text, MarkerText)) =>
        hist.attempts = EffectiveMaxAttempts

\* the first command of two failed, the Evaluator decided STOP in the first of
\* three allowed attempts, and the returned transcript ends with the marker
C38_Witness ==
    /\ Session_Returned /\ hist.exit = "finished"
    /\ hist.lastEval.via = "stop" /\ hist.evalCalls = 1
    /\ hist.attempts = 1 /\ EffectiveMaxAttempts = 3
    /\ commandQueue # <<>>
    /\ HasSuffix(ret.text, MarkerText)

\* C39: no file change is indexed twice: whatever the interleaving of the
\* detached tasks started after successive successful commands, a given
\* changed file content is embedded and stored in the auto-index collection
\* by at most one task.
C39_IndexedAtMostOnce == fe = "AutoIndexTasks" => ev.twice = {}

\* both tasks have ended; the file the first command wrote, untouched by the
\* second, was stored by the one and then again by the other
C39_Witness ==
    /\ TasksQuiet
    /\ \E c \in ev.twice :
          /\ c.modTime = 1
          /\ ev.fs[c.path].modTime = 1
          /\ [path |-> c.path, content |-> ev.fs[c.path].content] \in ev.docs

====
